---- MODULE Spec2Model ----
(***************************************************************************)
(* Versioned memory store of memorizer-ts: the StorageService over its     *)
(* four LanceDB tables (memories, memory_versions, memory_events,          *)
(* memory_relationships), driven by the REST handlers of api/routes.ts and *)
(* the MCP tool handlers that reach the same service.                      *)
(*                                                                         *)
(* Spec runs the handlers one after another, each from request to reply.   *)
(* SpecAsync runs them await by await, several in flight, on a store that  *)
(* already holds two memories.  SpecAnyConfidence runs the create and      *)
(* update routes on bodies whose confidence may lie outside [0, 1].        *)
(* SpecDiff applies the DiffService to a pair of texts, SpecSearch the     *)
(* search methods and the search tool to a store of a few memories,        *)
(* SpecEdit the edit tool to a stored memory, and SpecService runs callers *)
(* of the lazily initialized EmbeddingService and LlmService.  SpecUpdate  *)
(* runs the update route on bodies that carry further properties of a      *)
(* Memory, SpecVersions the diff endpoint beside create and update, and    *)
(* SpecQueue the progress streams of the QueueService's jobs.              *)
(*                                                                         *)
(* Encoding of JavaScript values:                                          *)
(*   - an optional input field is a sequence of length 0 (undefined) or 1; *)
(*   - a nullable string column holds the string Null for null;            *)
(*   - uuidv4() is a per-table counter that never repeats;                 *)
(*   - new Date() is the logical clock `now`, which advances after every   *)
(*     handler that wrote something;                                       *)
(*   - confidence is kept in tenths (10 is 1.0);                           *)
(*   - an id position holding the JS value undefined is UndefinedId.       *)
(***************************************************************************)
EXTENDS Integers, Sequences, FiniteSets, TLC

\* ---------------------------------------------------------------- bounds
MaxClock == 5
MaxMem == 2
\* Calls that may be in flight together.
MaxCalls == 2

\* ------------------------------------------------------- value encodings
Null == "null"
UndefinedStr == "undefined"
UndefinedId == 0
None == <<>>
Some(v) == <<v>>
IsDefined(o) == Len(o) > 0
Get(o) == o[1]

RelTypes == {"related"}

DefaultConfidence == 10

Opt(S) == {None} \cup {Some(v) : v \in S}


\* Request ids: every id the uuid counter can hand out and one that is
\* never handed out.
MemIds == 1..(MaxMem + 1)

FieldNames == {"type", "content", "text", "source", "tags", "confidence", "title"}

\* MemoryCreateInput as the POST /api/memories body carries it.
CreateInputs ==
  { [type |-> Some("note"), content |-> Some("c1"), text |-> Some("x1"),
     source |-> Some("s1"), tags |-> None, confidence |-> None, title |-> None],
    [type |-> Some("note"), content |-> Some("c1"), text |-> Some("x1"),
     source |-> Some("s1"), tags |-> None, confidence |-> None, title |-> Some("")],
    [type |-> Some("note"), content |-> Some("c1"), text |-> Some("x1"),
     source |-> Some("s1"), tags |-> Some(<<"a">>), confidence |-> Some(5),
     title |-> Some("T1")],
    [type |-> None, content |-> Some("c1"), text |-> Some("x1"),
     source |-> Some("s1"), tags |-> None, confidence |-> None, title |-> None],
    [type |-> Some("task"), content |-> Some("c2"), text |-> Some(""),
     source |-> Some("s2"), tags |-> None, confidence |-> None, title |-> None] }

\* MemoryUpdateInput: the empty partial, the partial that names only text, the
\* one that names only title, one that names type, source and confidence and
\* one that names content, tags and title.
AllUpdateInputs ==
  [type : Opt({"task"}), content : Opt({"c2"}), text : Opt({"x2"}),
   source : Opt({"s2"}), tags : Opt({<<"b">>}), confidence : Opt({5}),
   title : Opt({"T2"})]
Named(u) == {f \in FieldNames : IsDefined(u[f])}
UpdateInputs ==
  {u \in AllUpdateInputs :
     \/ Named(u) = {}
     \/ \E f \in {"text", "title"} : Named(u) = {f}
     \/ Named(u) = {"type", "source", "confidence"}
     \/ Named(u) = {"content", "tags", "title"}}

\* ------------------------------------------------------------------ state
VARIABLES memoryTable, versionTable, eventTable, relationshipTable, uuid, now, last,
          calls, applied, service, queue

vars == <<memoryTable, versionTable, eventTable, relationshipTable, uuid, now, last,
          calls, applied, service, queue>>

\* The calls in flight: one slot per call, holding the handler it runs, the
\* await it stands at (pc), its arguments and its local variables.
Procs == 1..MaxCalls

Idle == [op |-> "idle", pc |-> "idle", status |-> "none", id |-> 0, to |-> 0,
         ver |-> 0, upd |-> None, existing |-> None, current |-> None,
         version |-> None, relationshipIds |-> {}, relationship |-> None,
         t |-> 0, ret |-> None]

\* applied holds the pure function applied last, its arguments and what it
\* returned; NoCall before any was applied.
NoCall == [op |-> "none"]

\* service holds the private fields of the two lazily initialized singletons
\* as their constructors leave them; initializationPromise is Null or the
\* state of the promise it holds, started counts the runs of _initialize().
Services == {"EmbeddingService", "LlmService"}
Constructed ==
  [initialized |-> FALSE, initializationPromise |-> Null, started |-> 0, cache |-> {}]

\* queue holds the progressListeners map of the QueueService, which keeps
\* under a job id the callback of one progress stream, named here by the
\* client the callback writes to; beside it the progress streams of the
\* admin route, each with the job it watches and what was written to it, and
\* the events the queues have emitted.
MaxEvents == 2
Clients == {"c1", "c2"}
Jobs == {"j1", "j2"}
NoStream == [state |-> "none", jobId |-> "", written |-> <<>>]
Started ==
  [progressListeners |-> [j \in Jobs |-> None],
   streams |-> [c \in Clients |-> NoStream],
   emitted |-> <<>>]

\* The four tables, the uuid counters and the clock as one value, so that a
\* handler is a composition of the service's methods.
DB == [memoryTable |-> memoryTable, versionTable |-> versionTable,
       eventTable |-> eventTable, relationshipTable |-> relationshipTable,
       uuid |-> uuid]


\* uuidv4(): the next unused value of table k's counter.
uuidv4(s, k) == s.uuid[k] + 1
Bump(s, k) == [s EXCEPT !.uuid[k] = @ + 1]

\* ------------------------------------------------------------ embeddings
\* EmbeddingService.generate: the vector of a text, kept as the text it was
\* computed from.
generate(text) == <<"vector", text>>

\* generateForContent: the vector of the text body.
generateForContent(content) == generate(content)

\* generateForMetadata: the vector of the title and the tags joined by
\* blanks, empty strings left out; the joined text is kept as its words.
generateForMetadata(title, tags) ==
  generate(SelectSeq(<<title>> \o tags, LAMBDA w : w # ""))

\* ------------------------------------------------------- StorageService
\* Rows of memoryTable with the given id (the where clause `id = '...'`).
RowsById(s, id) == {m \in s.memoryTable : m.id = id}

\* getMemory: the first row with that id or null (None); relationship_count
\* is read as `row.relationship_count || 0`.
getMemory(s, id) ==
  IF RowsById(s, id) = {} THEN None
  ELSE Some(CHOOSE m \in RowsById(s, id) : TRUE)

\* getRelationshipIds: ids of the edges touching the memory that are not
\* marked deleted.
getRelationshipIds(s, memoryId) ==
  {r.id : r \in {e \in s.relationshipTable :
                   /\ (e.from_memory_id = memoryId \/ e.to_memory_id = memoryId)
                   /\ e.deleted_in_version = Null}}

\* A snapshot labelled with the version number the mutation is about to
\* produce instead of the one it replaces.
VersionRow_NextNumber(s, memory, relationshipIds, t) ==
  [version_id |-> uuidv4(s, "version"),
   memory_id |-> memory.id,
   version_number |-> memory.current_version + 1,
   type |-> memory.type,
   content |-> memory.content,
   text |-> memory.text,
   source |-> memory.source,
   tags |-> memory.tags,
   confidence |-> memory.confidence,
   title |-> memory.title,
   relationship_ids |-> relationshipIds,
   created_at |-> memory.created_at,
   versioned_at |-> t]

\* A snapshot that forgets the title.
VersionRow_NoTitle(s, memory, relationshipIds, t) ==
  [version_id |-> uuidv4(s, "version"),
   memory_id |-> memory.id,
   version_number |-> memory.current_version,
   type |-> memory.type,
   content |-> memory.content,
   text |-> memory.text,
   source |-> memory.source,
   tags |-> memory.tags,
   confidence |-> memory.confidence,
   title |-> Null,
   relationship_ids |-> relationshipIds,
   created_at |-> memory.created_at,
   versioned_at |-> t]

\* The MemoryVersion row createVersionSnapshot builds: a copy of `memory`
\* without the two embedding vectors.
VersionRow(s, memory, relationshipIds, t) ==
  [version_id |-> uuidv4(s, "version"),
   memory_id |-> memory.id,
   version_number |-> memory.current_version,
   type |-> memory.type,
   content |-> memory.content,
   text |-> memory.text,
   source |-> memory.source,
   tags |-> memory.tags,
   confidence |-> memory.confidence,
   title |-> memory.title,
   relationship_ids |-> relationshipIds,
   created_at |-> memory.created_at,
   versioned_at |-> t]

\* A snapshot that takes the place of the memory's earlier ones.
createVersionSnapshot_Replacing(s, memory, relationshipIds, t) ==
  [Bump(s, "version") EXCEPT
     !.versionTable = {v \in @ : v.memory_id # memory.id}
                        \cup {VersionRow(s, memory, relationshipIds, t)}]

\* createVersionSnapshot: the row added to versionTable.
createVersionSnapshot(s, memory, relationshipIds, t) ==
  [Bump(s, "version") EXCEPT
     !.versionTable = @ \cup {VersionRow(s, memory, relationshipIds, t)}]

\* An event that is built and never added to the table.
logEvent_NotAdded(s, memoryId, versionNumber, eventType, eventData, t) == s

\* logEvent: one MemoryEvent row appended to eventTable.
logEvent(s, memoryId, versionNumber, eventType, eventData, t) ==
  LET event == [event_id |-> uuidv4(s, "event"),
                memory_id |-> memoryId,
                version_number |-> versionNumber,
                event_type |-> eventType,
                event_data |-> eventData,
                timestamp |-> t,
                changed_by |-> Null]
  IN [Bump(s, "event") EXCEPT !.eventTable = @ \cup {event}]

\* `o || d` for an optional string: undefined and "" are falsy.
OrElse(o, d) == IF IsDefined(o) /\ Get(o) # "" THEN Get(o) ELSE d
\* `o ?? d` and `o || d` where every defined value is truthy.
Coalesce(o, d) == IF IsDefined(o) THEN Get(o) ELSE d
\* A required string field read from the input object (undefined if absent).
Field(o) == IF IsDefined(o) THEN Get(o) ELSE UndefinedStr

\* storeMemory: the new row, its initial snapshot and its Created event.
storeMemory(s, input, embedding, embeddingMetadata, t) ==
  LET memory == [id |-> uuidv4(s, "memory"),
                 type |-> Field(input.type),
                 content |-> Field(input.content),
                 text |-> Field(input.text),
                 source |-> Field(input.source),
                 tags |-> Coalesce(input.tags, <<>>),
                 confidence |-> Coalesce(input.confidence, DefaultConfidence),
                 title |-> OrElse(input.title, Null),
                 current_version |-> 1,
                 created_at |-> t,
                 updated_at |-> t,
                 relationship_count |-> 0,
                 embedding |-> embedding,
                 embedding_metadata |-> embeddingMetadata]
      s1 == [Bump(s, "memory") EXCEPT !.memoryTable = @ \cup {memory}]
      s2 == createVersionSnapshot(s1, memory, {}, t)
      s3 == logEvent(s2, memory.id, 1, "memory_created",
                     [initial_type |-> memory.type, initial_tags |-> memory.tags], t)
  IN [db |-> s3, ret |-> Some(memory)]

\* `...current, ...updates`: every field the partial names replaces the
\* current one.
\* The properties of a Memory that MemoryUpdateInput does not name and the
\* row keeps as they are spread: a request body may carry them all the same.
OtherNames == {"id", "relationship_count", "created_at"}

\* `{...current, ...updates}`: every property the partial carries replaces
\* the current one.
ApplyUpdates(current, updates) ==
  LET named == [current EXCEPT !.type = Coalesce(updates.type, @),
                               !.content = Coalesce(updates.content, @),
                               !.text = Coalesce(updates.text, @),
                               !.source = Coalesce(updates.source, @),
                               !.tags = Coalesce(updates.tags, @),
                               !.confidence = Coalesce(updates.confidence, @),
                               !.title = Coalesce(updates.title, @)]
  IN IF OtherNames \subseteq DOMAIN updates
     THEN [named EXCEPT !.id = Coalesce(updates.id, @),
                        !.relationship_count = Coalesce(updates.relationship_count, @),
                        !.created_at = Coalesce(updates.created_at, @)]
     ELSE named

\* memoryTable.delete(`id = '...'`)
DeleteRows(s, id) == [s EXCEPT !.memoryTable = @ \ RowsById(s, id)]
\* memoryTable.add([row])
AddRow(s, row) == [s EXCEPT !.memoryTable = @ \cup {row}]

\* The events updateMemory logs after the replace: one per category whose
\* field the partial names (content, tags, title).
LogUpdateEvents(s, id, current, updated, updates, t) ==
  LET s1 == IF IsDefined(updates.content)
            THEN logEvent(s, id, updated.current_version, "content_updated",
                          [previous_version |-> current.current_version], t)
            ELSE s
      s2 == IF IsDefined(updates.tags)
            THEN logEvent(s1, id, updated.current_version, "tags_updated",
                          [old_tags |-> current.tags, new_tags |-> Get(updates.tags)], t)
            ELSE s1
      s3 == IF IsDefined(updates.title)
            THEN logEvent(s2, id, updated.current_version, "title_updated",
                          [old_title |-> current.title, new_title |-> Get(updates.title)], t)
            ELSE s2
  IN s3

\* An update that keeps the version counter where it was.
Updated_NoBump(current, updates, t) ==
  [ApplyUpdates(current, updates) EXCEPT !.updated_at = t]

\* The `updated` object of updateMemory: the current row overlaid with the
\* partial, the version counter raised by one, updated_at set to now.
Updated(current, updates, t) ==
  [ApplyUpdates(current, updates) EXCEPT
     !.current_version = current.current_version + 1,
     !.updated_at = t]

\* A row that takes a supplied metadata vector and, with it, loses the
\* content vector it had.
UpdatedRow_VectorsTogether(current, updates, embedding, embeddingMetadata, t) ==
  [Updated(current, updates, t) EXCEPT
     !.embedding = IF IsDefined(embeddingMetadata)
                   THEN Coalesce(embedding, generate(""))
                   ELSE Coalesce(embedding, current.embedding),
     !.embedding_metadata = Coalesce(embeddingMetadata, current.embedding_metadata),
     !.created_at = current.created_at]

\* The row updateMemory inserts: `updated` with each vector the caller
\* supplied, else the current one (`embedding || current.embedding`).
UpdatedRow(current, updates, embedding, embeddingMetadata, t) ==
  [Updated(current, updates, t) EXCEPT
     !.embedding = Coalesce(embedding, current.embedding),
     !.embedding_metadata = Coalesce(embeddingMetadata, current.embedding_metadata),
     !.created_at = current.created_at]

\* updateMemory: read, snapshot, delete, insert, log.
updateMemory(s, id, updates, embedding, embeddingMetadata, t) ==
  LET cur == getMemory(s, id) IN
  IF ~IsDefined(cur) THEN [db |-> s, ret |-> None]
  ELSE
    LET current == Get(cur)
        relationshipIds == getRelationshipIds(s, id)
        s1 == createVersionSnapshot(s, current, relationshipIds, t)
        updated == Updated(current, updates, t)
        row == UpdatedRow(current, updates, embedding, embeddingMetadata, t)
        s2 == AddRow(DeleteRows(s1, id), row)
        s3 == LogUpdateEvents(s2, id, current, updated, updates, t)
    IN [db |-> s3, ret |-> Some(row)]

\* Only the edges that leave the memory.
Touching_FromOnly(s, id) == {e \in s.relationshipTable : e.from_memory_id = id}

\* Edges whose from or to endpoint is the memory.
Touching(s, id) ==
  {e \in s.relationshipTable : e.from_memory_id = id \/ e.to_memory_id = id}

\* deleteMemory (REST): the row, its versions, its events, its edges.
deleteMemory(s, id) ==
  IF ~IsDefined(getMemory(s, id)) THEN [db |-> s, ret |-> FALSE]
  ELSE
    LET s1 == DeleteRows(s, id)
        s2 == [s1 EXCEPT !.versionTable = {v \in @ : v.memory_id # id}]
        s3 == [s2 EXCEPT !.eventTable = {e \in @ : e.memory_id # id}]
        s4 == [s3 EXCEPT !.relationshipTable = @ \ Touching(s3, id)]
    IN [db |-> s4, ret |-> TRUE]

\* delete (MCP tools): as deleteMemory, the edges found by a query for the
\* ones not marked deleted and removed one by one by their id.
delete(s, id) ==
  IF ~IsDefined(getMemory(s, id)) THEN [db |-> s, ret |-> FALSE]
  ELSE
    LET s1 == DeleteRows(s, id)
        s2 == [s1 EXCEPT !.versionTable = {v \in @ : v.memory_id # id}]
        s3 == [s2 EXCEPT !.eventTable = {e \in @ : e.memory_id # id}]
        relationships == {e \in Touching(s3, id) : e.deleted_in_version = Null}
        s4 == [s3 EXCEPT !.relationshipTable =
                 {e \in @ : \A rel \in relationships : e.id # rel.id}]
    IN [db |-> s4, ret |-> TRUE]

\* The row incrementRelationshipCount inserts: the memory it read with the
\* count plus one.
IncrementedRow(memory) == [memory EXCEPT !.relationship_count = @ + 1]

\* incrementRelationshipCount: read, delete, insert with the count plus one;
\* nothing when the memory is missing.
incrementRelationshipCount(s, memoryId) ==
  LET cur == getMemory(s, memoryId) IN
  IF ~IsDefined(cur) THEN s
  ELSE AddRow(DeleteRows(s, memoryId), IncrementedRow(Get(cur)))

\* The MemoryRelationship row createRelationship builds.
RelationshipRow(s, input, t) ==
  [id |-> uuidv4(s, "relationship"),
   from_memory_id |-> input.from_memory_id,
   to_memory_id |-> input.to_memory_id,
   type |-> input.type,
   score |-> input.score,
   created_at |-> t,
   created_in_version |-> Null,
   deleted_in_version |-> Null]

\* createRelationship: the edge, both counts, one RelationshipAdded event on
\* the source, logged with version number 0.
createRelationship(s, input, t) ==
  LET relationship == RelationshipRow(s, input, t)
      s1 == [Bump(s, "relationship") EXCEPT !.relationshipTable = @ \cup {relationship}]
      s2 == incrementRelationshipCount(s1, input.from_memory_id)
      s3 == incrementRelationshipCount(s2, input.to_memory_id)
      s4 == logEvent(s3, input.from_memory_id, 0, "relationship_added",
                     [relationship_id |-> relationship.id,
                      to_memory_id |-> input.to_memory_id,
                      type |-> input.type], t)
  IN [db |-> s4, ret |-> relationship]

\* getVersion: the row with that version_id or null.
getVersion(s, versionId) ==
  LET rows == {v \in s.versionTable : v.version_id = versionId} IN
  IF rows = {} THEN None ELSE Some(CHOOSE v \in rows : TRUE)

\* getVersionHistory: the versions of one memory.
getVersionHistory(s, memoryId) == {v \in s.versionTable : v.memory_id = memoryId}

\* getEvents: the events of one memory.
getEvents(s, memoryId) == {e \in s.eventTable : e.memory_id = memoryId}

\* A version check that accepts a version of any memory.
VersionBelongs_AnyOwner(ver, memoryId) == IsDefined(ver)

\* The guard of revertToVersion: the version exists and is the memory's.
VersionBelongs(ver, memoryId) == IsDefined(ver) /\ Get(ver).memory_id = memoryId

\* A reverted row that starts its relationship count afresh.
Reverted_CountReset(memoryId, version, current, t) ==
  [id |-> memoryId,
   type |-> version.type,
   content |-> version.content,
   text |-> version.text,
   source |-> version.source,
   tags |-> version.tags,
   confidence |-> version.confidence,
   title |-> version.title,
   current_version |-> current.current_version + 1,
   created_at |-> current.created_at,
   updated_at |-> t,
   relationship_count |-> 0,
   embedding |-> current.embedding,
   embedding_metadata |-> current.embedding_metadata]

\* The row revertToVersion inserts: the version's seven fields, the current
\* row's id, created_at, relationship_count and embeddings.
Reverted(memoryId, version, current, t) ==
  [id |-> memoryId,
   type |-> version.type,
   content |-> version.content,
   text |-> version.text,
   source |-> version.source,
   tags |-> version.tags,
   confidence |-> version.confidence,
   title |-> version.title,
   current_version |-> current.current_version + 1,
   created_at |-> current.created_at,
   updated_at |-> t,
   relationship_count |-> current.relationship_count,
   embedding |-> current.embedding,
   embedding_metadata |-> current.embedding_metadata]

\* revertToVersion: check the version, read, snapshot, delete, insert, log.
revertToVersion(s, memoryId, versionId, t) ==
  LET ver == getVersion(s, versionId) IN
  IF ~VersionBelongs(ver, memoryId) THEN [db |-> s, ret |-> None]
  ELSE
    LET cur == getMemory(s, memoryId) IN
    IF ~IsDefined(cur) THEN [db |-> s, ret |-> None]
    ELSE
      LET version == Get(ver)
          current == Get(cur)
          relationshipIds == getRelationshipIds(s, memoryId)
          s1 == createVersionSnapshot(s, current, relationshipIds, t)
          reverted == Reverted(memoryId, version, current, t)
          s2 == AddRow(DeleteRows(s1, memoryId), reverted)
          s3 == logEvent(s2, memoryId, reverted.current_version, "memory_reverted",
                         [reverted_to_version |-> version.version_number,
                          previous_version |-> current.current_version], t)
      IN [db |-> s3, ret |-> Some(reverted)]

\* ---------------------------------------------------------------- handlers
\* What the last handler was and what it answered.  For a handler that
\* succeeded: the memory id, the version id and the partial it was given, the
\* memory row it found before it acted (pre) and the row it returned (ret).
\* For one that failed: why.  For createRelationship: whether both ids it
\* was given resolve to stored memories.
\* An update also records the two vectors the route handed to updateMemory.
\* A revert also records the version ids it wrote (snap), and whether it
\* targets the snapshot that the revert right before it took of the same
\* memory (undoes), with the row that earlier revert had found (orig).
NoLast == [op |-> "none", via |-> "none", status |-> "none", why |-> "",
           id |-> 0, to |-> 0, ver |-> 0, upd |-> None, pre |-> None, ret |-> None,
           resolves |-> TRUE, snap |-> {}, undoes |-> FALSE, orig |-> None,
           embedding |-> None, embeddingMetadata |-> None]

Exists(s, id) == IsDefined(getMemory(s, id))

\* The tables and counters take the values of s.
Write(s) ==
  /\ memoryTable' = s.memoryTable
  /\ versionTable' = s.versionTable
  /\ eventTable' = s.eventTable
  /\ relationshipTable' = s.relationshipTable
  /\ uuid' = s.uuid

\* A handler that runs from request to reply with no other call in flight
\* leaves s behind.
Commit(s) ==
  /\ Write(s)
  /\ UNCHANGED <<calls, applied, service, queue>>

\* A handler that answers without writing: the tables keep their rows, time
\* passes.
Unwritten ==
  /\ now < MaxClock
  /\ UNCHANGED <<memoryTable, versionTable, eventTable, relationshipTable, uuid>>
  /\ UNCHANGED <<calls, applied, service, queue>>
  /\ now' = now + 1

Init ==
  /\ memoryTable = {}
  /\ versionTable = {}
  /\ eventTable = {}
  /\ relationshipTable = {}
  /\ uuid = [memory |-> 0, version |-> 0, event |-> 0, relationship |-> 0]
  /\ now = 1
  /\ last = NoLast
  /\ calls = [p \in Procs |-> Idle]
  /\ applied = NoCall
  /\ service = [k \in Services |-> Constructed]
  /\ queue = Started

\* LlmService.generateTitle: a title or null.
GeneratedTitles == {None, Some("T2")}

\* `title || ''` for a stored title.
TitleOrEmpty(title) == IF title = Null THEN "" ELSE title

\* POST /api/memories, for the bodies of a given set.
PostMemoryOf(bodies) ==
  \E body \in bodies, generatedTitle \in GeneratedTitles :
    IF \/ ~IsDefined(body.type) \/ Get(body.type) = ""
       \/ ~IsDefined(body.content)
       \/ ~IsDefined(body.text) \/ Get(body.text) = ""
       \/ ~IsDefined(body.source) \/ Get(body.source) = ""
    THEN /\ last' = [NoLast EXCEPT !.op = "create", !.via = "rest", !.status = "invalid",
                                   !.why = "required"]
         /\ Unwritten
    ELSE /\ now < MaxClock
         /\ uuid.memory < MaxMem
         /\ LET contentEmbedding == generateForContent(Get(body.text))
                metadataEmbedding == generateForMetadata(OrElse(body.title, ""),
                                                         Coalesce(body.tags, <<>>))
                input == IF OrElse(body.title, "") = "" /\ IsDefined(generatedTitle)
                         THEN [body EXCEPT !.title = generatedTitle]
                         ELSE body
                r == storeMemory(DB, input, contentEmbedding, metadataEmbedding, now)
            IN /\ Commit(r.db)
               /\ last' = [NoLast EXCEPT !.op = "create", !.via = "rest", !.status = "ok",
                                         !.id = Get(r.ret).id, !.ret = r.ret]
         /\ now' = now + 1

PostMemory == PostMemoryOf(CreateInputs)

\* The vectors the PUT route hands to updateMemory: a content vector when
\* the body names text; a metadata vector when it names text, title or tags,
\* computed from the body's title and tags, else the ones the route read.
ContentEmbedding(updates) ==
  IF IsDefined(updates.text) THEN Some(generateForContent(Get(updates.text))) ELSE None

MetadataEmbedding(existing, updates) ==
  LET title == Coalesce(updates.title, existing.title)
      tags == Coalesce(updates.tags, existing.tags)
  IN IF IsDefined(updates.text) \/ IsDefined(updates.title) \/ IsDefined(updates.tags)
     THEN Some(generateForMetadata(TitleOrEmpty(title), tags))
     ELSE None

\* PUT /api/memories/:id, for the partials of a given set.
PutMemoryOf(partials) ==
  \E id \in MemIds, updates \in partials :
    LET existing == getMemory(DB, id) IN
    IF ~IsDefined(existing)
    THEN /\ last' = [NoLast EXCEPT !.op = "update", !.via = "rest", !.status = "notfound",
                                   !.why = "memory", !.resolves = FALSE]
         /\ Unwritten
    ELSE /\ now < MaxClock
         /\ LET contentEmbedding == ContentEmbedding(updates)
                metadataEmbedding == MetadataEmbedding(Get(existing), updates)
                r == updateMemory(DB, id, updates, contentEmbedding, metadataEmbedding, now)
            IN /\ Commit(r.db)
               /\ last' = [NoLast EXCEPT !.op = "update", !.via = "rest",
                                         !.status = IF IsDefined(r.ret) THEN "ok" ELSE "notfound",
                                         !.id = id, !.upd = Some(updates),
                                         !.pre = existing, !.ret = r.ret,
                                         !.embedding = contentEmbedding,
                                         !.embeddingMetadata = metadataEmbedding]
         /\ now' = now + 1

PutMemory == PutMemoryOf(UpdateInputs)

\* DELETE /api/memories/:id
DeleteMemoryRoute ==
  \E id \in MemIds :
    LET r == deleteMemory(DB, id) IN
    IF ~r.ret
    THEN /\ last' = [NoLast EXCEPT !.op = "delete", !.status = "notfound",
                                   !.why = "memory", !.resolves = FALSE]
         /\ Commit(r.db)
         /\ now < MaxClock
         /\ now' = now + 1
    ELSE /\ now < MaxClock
         /\ Commit(r.db)
         /\ last' = [NoLast EXCEPT !.op = "delete", !.status = "ok", !.id = id,
                                   !.pre = getMemory(DB, id)]
         /\ now' = now + 1

\* MCP tool `delete`
ToolDelete ==
  \E id \in MemIds :
    LET r == delete(DB, id) IN
    IF ~r.ret
    THEN /\ last' = [NoLast EXCEPT !.op = "delete", !.status = "notfound",
                                   !.why = "memory", !.resolves = FALSE]
         /\ Commit(r.db)
         /\ now < MaxClock
         /\ now' = now + 1
    ELSE /\ now < MaxClock
         /\ Commit(r.db)
         /\ last' = [NoLast EXCEPT !.op = "delete", !.status = "ok", !.id = id,
                                   !.pre = getMemory(DB, id)]
         /\ now' = now + 1

\* POST /api/relationships
PostRelationship ==
  \E from_memory_id \in MemIds, to_memory_id \in MemIds, type \in RelTypes :
    IF ~Exists(DB, from_memory_id) \/ ~Exists(DB, to_memory_id)
    THEN /\ last' = [NoLast EXCEPT !.op = "createRelationship", !.via = "rest",
                                   !.status = "notfound", !.why = "memory",
                                   !.resolves = FALSE]
         /\ Unwritten
    ELSE /\ now < MaxClock
         /\ LET r == createRelationship(DB, [from_memory_id |-> from_memory_id,
                                             to_memory_id |-> to_memory_id,
                                             type |-> type, score |-> Null], now)
            IN /\ Commit(r.db)
               /\ last' = [NoLast EXCEPT !.op = "createRelationship", !.via = "rest",
                                         !.status = "ok",
                                         !.id = from_memory_id, !.to = to_memory_id,
                                         !.pre = getMemory(DB, from_memory_id)]
         /\ now' = now + 1

\* MCP tool `create_relationship`: the service is called as
\* createRelationship(fromId, toId, type), so its `input` is the string
\* fromId and input.from_memory_id, input.to_memory_id and input.type are
\* all undefined.  The table either takes the row with its undefined
\* columns or refuses it (an exception from relationshipTable.add).
ToolCreateRelationship ==
  \E fromId \in MemIds, toId \in MemIds, type \in RelTypes, accepted \in BOOLEAN :
    LET resolves == Exists(DB, fromId) /\ Exists(DB, toId) IN
    IF accepted
    THEN /\ now < MaxClock
         /\ LET r == createRelationship(DB, [from_memory_id |-> UndefinedId,
                                             to_memory_id |-> UndefinedId,
                                             type |-> UndefinedStr, score |-> Null], now)
            IN /\ Commit(r.db)
               /\ last' = [NoLast EXCEPT !.op = "createRelationship", !.via = "tool",
                                         !.status = "ok", !.resolves = resolves]
         /\ now' = now + 1
    ELSE /\ last' = [NoLast EXCEPT !.op = "createRelationship", !.via = "tool",
                                   !.status = "error", !.why = "substrate"]
         /\ Unwritten

\* POST /api/memories/:id/revert
PostRevert ==
  \E id \in MemIds, version_id \in 1..(uuid.version + 1) :
    LET r == revertToVersion(DB, id, version_id, now) IN
    IF ~IsDefined(r.ret)
    THEN /\ last' = [NoLast EXCEPT !.op = "revert", !.via = "rest", !.status = "notfound",
                                   !.why = IF ~IsDefined(getVersion(DB, version_id))
                                           THEN "version"
                                           ELSE IF Exists(DB, id) THEN "foreign" ELSE "memory"]
         /\ Commit(r.db)
         /\ now < MaxClock
         /\ now' = now + 1
    ELSE /\ now < MaxClock
         /\ Commit(r.db)
         /\ LET undoes == /\ last.op = "revert" /\ last.status = "ok"
                          /\ last.id = id /\ version_id \in last.snap
            IN last' = [NoLast EXCEPT !.op = "revert", !.via = "rest", !.status = "ok",
                                      !.id = id, !.ver = version_id,
                                      !.pre = getMemory(DB, id), !.ret = r.ret,
                                      !.snap = {v.version_id : v \in r.db.versionTable \ versionTable},
                                      !.undoes = undoes,
                                      !.orig = IF undoes THEN last.pre ELSE None]
         /\ now' = now + 1

Next ==
  \/ PostMemory
  \/ PutMemory
  \/ DeleteMemoryRoute
  \/ ToolDelete
  \/ PostRelationship
  \/ ToolCreateRelationship
  \/ PostRevert

Spec == Init /\ [][Next]_vars

\* ------------------------------------------------- requests out of range
\* The create and update routes alone, fed bodies whose confidence lies
\* inside and outside [0, 1] (tenths: 0..10) beside the usual ones.
ConfidenceInputs == {5, 15, 0 - 1}

CreateInputsAnyConfidence ==
  CreateInputs \cup
  {[body EXCEPT !.confidence = Some(confidence)] :
     body \in {b \in CreateInputs : IsDefined(b.tags)}, confidence \in ConfidenceInputs}

UpdateInputsAnyConfidence ==
  {u \in UpdateInputs : Named(u) = {"title"}} \cup
  {[u EXCEPT !.confidence = Some(confidence)] :
     u \in {v \in UpdateInputs : Named(v) = {}}, confidence \in ConfidenceInputs}

NextAnyConfidence ==
  \/ PostMemoryOf(CreateInputsAnyConfidence)
  \/ PutMemoryOf(UpdateInputsAnyConfidence)

SpecAnyConfidence == Init /\ [][NextAnyConfidence]_vars

\* ------------------------------------------- requests with further fields
\* The create and update routes alone, the update route fed bodies that
\* carry, beside the fields of MemoryUpdateInput, properties of a stored
\* Memory: the route hands request.body to updateMemory as it arrives.
UpdateBodies ==
  LET Body(named, id, relationship_count, created_at) ==
        [type |-> None, content |-> None, text |-> None, source |-> None,
         tags |-> None, confidence |-> None, title |-> named,
         id |-> id, relationship_count |-> relationship_count,
         created_at |-> created_at]
  IN {Body(None, None, None, None), Body(Some("T2"), None, None, None),
      Body(Some("T2"), Some(2), None, None), Body(None, Some(MaxMem + 1), None, None),
      Body(None, None, Some(7), None), Body(None, None, None, Some(0))}

NextUpdate ==
  \/ PostMemoryOf({b \in CreateInputs : IsDefined(b.tags)})
  \/ PutMemoryOf(UpdateBodies)

SpecUpdate == Init /\ [][NextUpdate]_vars

\* ------------------------------------------------------- calls in flight
\* Node runs one handler until its next await and then any other handler
\* that is ready, so every awaited table operation is one step of its call
\* and the steps of the calls in flight interleave freely.  A call takes its
\* `new Date()` values from the clock as it stands when the call arrives.

EmptyDB == [memoryTable |-> {}, versionTable |-> {}, eventTable |-> {},
            relationshipTable |-> {},
            uuid |-> [memory |-> 0, version |-> 0, event |-> 0, relationship |-> 0]]

\* The store the calls race on: memory 1, created plain and then given a new
\* text (current_version 2), and memory 2, created with tags and a title.
StoredDB ==
  LET plain == CHOOSE b \in CreateInputs :
                 /\ IsDefined(b.type) /\ Get(b.text) # ""
                 /\ b.tags = None /\ b.title = None
      tagged == CHOOSE b \in CreateInputs : IsDefined(b.tags)
      retext == CHOOSE u \in UpdateInputs : Named(u) = {"text"}
      s1 == storeMemory(EmptyDB, plain, generateForContent(Get(plain.text)),
                        generateForMetadata("", <<>>), 1).db
      s2 == storeMemory(s1, tagged, generateForContent(Get(tagged.text)),
                        generateForMetadata(Get(tagged.title), Get(tagged.tags)), 2).db
      s3 == updateMemory(s2, 1, retext, ContentEmbedding(retext),
                         MetadataEmbedding(Get(getMemory(s2, 1)), retext), 3).db
  IN s3

StoredIds == {m.id : m \in StoredDB.memoryTable}
StoredVersionIds == {v.version_id : v \in StoredDB.versionTable}

\* The partials the racing PUT requests carry.
AsyncUpdates ==
  {u \in UpdateInputs :
     Named(u) = {"type", "source", "confidence"} \/ Named(u) = {"content", "tags", "title"}}

\* The requests that may arrive, each at the first await of its handler.
Requests ==
  {[Idle EXCEPT !.op = "update", !.pc = "existing", !.status = "running",
                !.id = id, !.upd = Some(u)] : id \in StoredIds, u \in AsyncUpdates}
  \cup {[Idle EXCEPT !.op = "revert", !.pc = "version", !.status = "running",
                     !.id = id, !.ver = v] : id \in StoredIds, v \in StoredVersionIds}
  \cup {[Idle EXCEPT !.op = "delete", !.pc = "read", !.status = "running",
                     !.id = id] : id \in StoredIds}
  \cup {[Idle EXCEPT !.op = "createRelationship", !.pc = "from", !.status = "running",
                     !.id = id, !.to = to] : id \in StoredIds, to \in StoredIds}
  \cup {[Idle EXCEPT !.op = "regenerate", !.pc = "read", !.status = "running",
                     !.id = id] : id \in StoredIds}
  \cup {[Idle EXCEPT !.op = "read", !.pc = "read", !.status = "running",
                     !.id = id] : id \in StoredIds}

Running(p, op) == calls[p].op = op /\ calls[p].status = "running"
Goto(p, c) == calls' = [calls EXCEPT ![p] = c]

\* The call answers: its arguments, the row it read as `current` and its
\* answer stay on record, its other locals go.
Return(p, status, ret) ==
  Goto(p, [calls[p] EXCEPT !.pc = "done", !.status = status, !.ret = ret,
                           !.existing = None, !.version = None,
                           !.relationshipIds = {}, !.relationship = None])

\* A step that only reads.
Reads == UNCHANGED <<memoryTable, versionTable, eventTable, relationshipTable, uuid>>

\* A request arrives.  Slots fill in order (the calls are interchangeable).
Begin(p) ==
  /\ calls[p].op = "idle"
  /\ \A q \in Procs : q < p => calls[q].op # "idle"
  /\ \E c \in Requests : Goto(p, [c EXCEPT !.t = now])
  /\ now' = now + 1
  /\ Reads
  /\ UNCHANGED <<last, applied, service, queue>>

\* GET /api/memories/:id
GetMemoryStep(p) ==
  /\ Running(p, "read")
  /\ LET memory == getMemory(DB, calls[p].id)
     IN Return(p, IF IsDefined(memory) THEN "ok" ELSE "notfound", memory)
  /\ Reads
  /\ UNCHANGED <<now, last, applied, service, queue>>

\* The order in which updateMemory logs its events, and the partial cut down
\* to one category.
LogOrder == <<"content", "tags", "title">>
LaterLogs(updates, k) ==
  {j \in (k + 1)..Len(LogOrder) : IsDefined(updates[LogOrder[j]])}
Least(S) == CHOOSE x \in S : \A y \in S : x <= y
LogIndex(pc) == CHOOSE j \in 1..Len(LogOrder) : LogOrder[j] = pc
OnlyCategory(updates, category) ==
  [f \in DOMAIN updates |-> IF f = category THEN updates[f] ELSE None]

\* PUT /api/memories/:id, await by await: the route's getMemory, then
\* updateMemory's getMemory, getRelationshipIds, createVersionSnapshot,
\* memoryTable.delete, memoryTable.add and one logEvent per named category.
PutMemoryStep(p) ==
  LET c == calls[p]
      updates == Get(c.upd)
      current == Get(c.current)
      row == UpdatedRow(current, updates, ContentEmbedding(updates),
                        MetadataEmbedding(Get(c.existing), updates), c.t)
      after(k) == IF LaterLogs(updates, k) = {}
                  THEN Return(p, "ok", Some(row))
                  ELSE Goto(p, [c EXCEPT !.pc = LogOrder[Least(LaterLogs(updates, k))]])
  IN
  /\ Running(p, "update")
  /\ UNCHANGED <<now, last, applied, service, queue>>
  /\ CASE c.pc = "existing" ->
            /\ Reads
            /\ IF Exists(DB, c.id)
               THEN Goto(p, [c EXCEPT !.pc = "current", !.existing = getMemory(DB, c.id)])
               ELSE Return(p, "notfound", None)
       [] c.pc = "current" ->
            /\ Reads
            /\ IF Exists(DB, c.id)
               THEN Goto(p, [c EXCEPT !.pc = "relationshipIds", !.current = getMemory(DB, c.id)])
               ELSE Return(p, "null", None)
       [] c.pc = "relationshipIds" ->
            /\ Reads
            /\ Goto(p, [c EXCEPT !.pc = "snapshot",
                                 !.relationshipIds = getRelationshipIds(DB, c.id)])
       [] c.pc = "snapshot" ->
            /\ Write(createVersionSnapshot(DB, current, c.relationshipIds, c.t))
            /\ Goto(p, [c EXCEPT !.pc = "delete"])
       [] c.pc = "delete" ->
            /\ Write(DeleteRows(DB, c.id))
            /\ Goto(p, [c EXCEPT !.pc = "add"])
       [] c.pc = "add" ->
            /\ Write(AddRow(DB, row))
            /\ after(0)
       [] c.pc \in {"content", "tags", "title"} ->
            /\ Write(LogUpdateEvents(DB, c.id, current, Updated(current, updates, c.t),
                                      OnlyCategory(updates, c.pc), c.t))
            /\ after(LogIndex(c.pc))

\* POST /api/memories/:id/revert, await by await: getVersion, getMemory,
\* getRelationshipIds, createVersionSnapshot, delete, add, logEvent.
PostRevertStep(p) ==
  LET c == calls[p]
      current == Get(c.current)
      version == Get(c.version)
      reverted == Reverted(c.id, version, current, c.t)
  IN
  /\ Running(p, "revert")
  /\ UNCHANGED <<now, last, applied, service, queue>>
  /\ CASE c.pc = "version" ->
            /\ Reads
            /\ IF VersionBelongs(getVersion(DB, c.ver), c.id)
               THEN Goto(p, [c EXCEPT !.pc = "current", !.version = getVersion(DB, c.ver)])
               ELSE Return(p, "notfound", None)
       [] c.pc = "current" ->
            /\ Reads
            /\ IF Exists(DB, c.id)
               THEN Goto(p, [c EXCEPT !.pc = "relationshipIds", !.current = getMemory(DB, c.id)])
               ELSE Return(p, "notfound", None)
       [] c.pc = "relationshipIds" ->
            /\ Reads
            /\ Goto(p, [c EXCEPT !.pc = "snapshot",
                                 !.relationshipIds = getRelationshipIds(DB, c.id)])
       [] c.pc = "snapshot" ->
            /\ Write(createVersionSnapshot(DB, current, c.relationshipIds, c.t))
            /\ Goto(p, [c EXCEPT !.pc = "delete"])
       [] c.pc = "delete" ->
            /\ Write(DeleteRows(DB, c.id))
            /\ Goto(p, [c EXCEPT !.pc = "add"])
       [] c.pc = "add" ->
            /\ Write(AddRow(DB, reverted))
            /\ Goto(p, [c EXCEPT !.pc = "log"])
       [] c.pc = "log" ->
            /\ Write(logEvent(DB, c.id, reverted.current_version, "memory_reverted",
                               [reverted_to_version |-> version.version_number,
                                previous_version |-> current.current_version], c.t))
            /\ Return(p, "ok", Some(reverted))

\* DELETE /api/memories/:id, await by await: getMemory and the four deletes
\* of deleteMemory.
DeleteMemoryStep(p) ==
  LET c == calls[p] IN
  /\ Running(p, "delete")
  /\ UNCHANGED <<now, last, applied, service, queue>>
  /\ CASE c.pc = "read" ->
            /\ Reads
            /\ IF Exists(DB, c.id)
               THEN Goto(p, [c EXCEPT !.pc = "memory"])
               ELSE Return(p, "notfound", None)
       [] c.pc = "memory" ->
            /\ Write(DeleteRows(DB, c.id))
            /\ Goto(p, [c EXCEPT !.pc = "versions"])
       [] c.pc = "versions" ->
            /\ Write([DB EXCEPT !.versionTable = {v \in @ : v.memory_id # c.id}])
            /\ Goto(p, [c EXCEPT !.pc = "events"])
       [] c.pc = "events" ->
            /\ Write([DB EXCEPT !.eventTable = {e \in @ : e.memory_id # c.id}])
            /\ Goto(p, [c EXCEPT !.pc = "relationships"])
       [] c.pc = "relationships" ->
            /\ Write([DB EXCEPT !.relationshipTable = @ \ Touching(DB, c.id)])
            /\ Return(p, "ok", None)

\* POST /api/relationships, await by await: the two getMemory calls of the
\* route, then createRelationship's add, its two incrementRelationshipCount
\* calls (getMemory, delete, add each) and its logEvent.
PostRelationshipStep(p) ==
  LET c == calls[p]
      input == [from_memory_id |-> c.id, to_memory_id |-> c.to,
                type |-> CHOOSE type \in RelTypes : TRUE, score |-> Null]
      relationship == RelationshipRow(DB, input, c.t)
      memory == getMemory(DB, IF c.pc = "fromRead" THEN c.id ELSE c.to)
  IN
  /\ Running(p, "createRelationship")
  /\ UNCHANGED <<now, last, applied, service, queue>>
  /\ CASE c.pc = "from" ->
            /\ Reads
            /\ Goto(p, [c EXCEPT !.pc = "to", !.existing = getMemory(DB, c.id)])
       [] c.pc = "to" ->
            /\ Reads
            /\ IF IsDefined(c.existing) /\ Exists(DB, c.to)
               THEN Goto(p, [c EXCEPT !.pc = "edge"])
               ELSE Return(p, "notfound", None)
       [] c.pc = "edge" ->
            /\ Write([Bump(DB, "relationship") EXCEPT
                         !.relationshipTable = @ \cup {relationship}])
            /\ Goto(p, [c EXCEPT !.pc = "fromRead", !.relationship = Some(relationship)])
       [] c.pc \in {"fromRead", "toRead"} ->
            /\ Reads
            /\ IF IsDefined(memory)
               THEN Goto(p, [c EXCEPT !.pc = IF c.pc = "fromRead" THEN "fromDelete" ELSE "toDelete",
                                      !.current = memory])
               ELSE Goto(p, [c EXCEPT !.pc = IF c.pc = "fromRead" THEN "toRead" ELSE "log"])
       [] c.pc \in {"fromDelete", "toDelete"} ->
            /\ Write(DeleteRows(DB, Get(c.current).id))
            /\ Goto(p, [c EXCEPT !.pc = IF c.pc = "fromDelete" THEN "fromAdd" ELSE "toAdd"])
       [] c.pc \in {"fromAdd", "toAdd"} ->
            /\ Write(AddRow(DB, IncrementedRow(Get(c.current))))
            /\ Goto(p, [c EXCEPT !.pc = IF c.pc = "fromAdd" THEN "toRead" ELSE "log"])
       [] c.pc = "log" ->
            /\ Write(logEvent(DB, c.id, 0, "relationship_added",
                               [relationship_id |-> Get(c.relationship).id,
                                to_memory_id |-> c.to,
                                type |-> input.type], c.t))
            /\ Return(p, "ok", None)

\* The embedding-regeneration job for one memory, await by await: getMemory,
\* memoryTable.delete, memoryTable.add of the row it read with new vectors.
RegenerateStep(p) ==
  LET c == calls[p]
      memory == Get(c.current)
  IN
  /\ Running(p, "regenerate")
  /\ UNCHANGED <<now, last, applied, service, queue>>
  /\ CASE c.pc = "read" ->
            /\ Reads
            /\ IF Exists(DB, c.id)
               THEN Goto(p, [c EXCEPT !.pc = "delete", !.current = getMemory(DB, c.id)])
               ELSE Return(p, "notfound", None)
       [] c.pc = "delete" ->
            /\ Write(DeleteRows(DB, c.id))
            /\ Goto(p, [c EXCEPT !.pc = "add"])
       [] c.pc = "add" ->
            /\ Write(AddRow(DB, [memory EXCEPT
                        !.embedding = generateForContent(memory.text),
                        !.embedding_metadata =
                          generateForMetadata(TitleOrEmpty(memory.title), memory.tags)]))
            /\ Return(p, "ok", None)

\* The table operation an update or a revert awaits throws: the call ends
\* with the error, the operation has written nothing.  At most one operation
\* fails.
Throws(p) ==
  /\ Running(p, "update") \/ Running(p, "revert")
  /\ \A q \in Procs : calls[q].status # "error"
  /\ Return(p, "error", None)
  /\ Reads
  /\ UNCHANGED <<now, last, applied, service, queue>>

InitAsync ==
  /\ memoryTable = StoredDB.memoryTable
  /\ versionTable = StoredDB.versionTable
  /\ eventTable = StoredDB.eventTable
  /\ relationshipTable = StoredDB.relationshipTable
  /\ uuid = StoredDB.uuid
  /\ now = 4
  /\ last = NoLast
  /\ calls = [p \in Procs |-> Idle]
  /\ applied = NoCall
  /\ service = [k \in Services |-> Constructed]
  /\ queue = Started

NextAsync ==
  \E p \in Procs :
    \/ Begin(p)
    \/ GetMemoryStep(p)
    \/ PutMemoryStep(p)
    \/ PostRevertStep(p)
    \/ DeleteMemoryStep(p)
    \/ PostRelationshipStep(p)
    \/ RegenerateStep(p)
    \/ Throws(p)

SpecAsync == InitAsync /\ [][NextAsync]_vars

\* ------------------------------------------------------------ DiffService
\* A text is a string of at most MaxText characters; the characters that
\* matter to a line diff are the line break and two letters.
MaxText == 4
Newline == "\n"
Chars == {"a", "b", Newline}
Texts == UNION {[1..n -> Chars] : n \in 0..MaxText}

\* The contexts unifiedDiff is asked for: none, one line and the default.
DefaultContext == 3
Contexts == {0, 1, DefaultContext}

Max(a, b) == IF a > b THEN a ELSE b
Min(a, b) == IF a < b THEN a ELSE b

\* String.prototype.split: the pieces between the separators; a text with no
\* separator, the empty text included, is one piece.
RECURSIVE split(_, _)
split(text, separator) ==
  IF \A i \in 1..Len(text) : text[i] # separator THEN <<text>>
  ELSE LET i == CHOOSE k \in 1..Len(text) :
                  /\ text[k] = separator
                  /\ \A h \in 1..(k - 1) : text[h] # separator
       IN <<SubSeq(text, 1, i - 1)>> \o split(SubSeq(text, i + 1, Len(text)), separator)

\* The LCS table: dp[i, j] is the length of a longest common subsequence of
\* the first i lines of arr1 and the first j lines of arr2.
LcsTable(arr1, arr2) ==
  LET dp[i \in 0..Len(arr1), j \in 0..Len(arr2)] ==
        IF i = 0 \/ j = 0 THEN 0
        ELSE IF arr1[i] = arr2[j] THEN dp[i - 1, j - 1] + 1
        ELSE Max(dp[i - 1, j], dp[i, j - 1])
  IN dp

\* The backtrack that goes up from every cell of two different lines,
\* whatever the table says.
RECURSIVE Backtrack_AlwaysUp(_, _, _, _, _)
Backtrack_AlwaysUp(arr1, arr2, dp, i, j) ==
  IF ~(i > 0 /\ j > 0) THEN <<>>
  ELSE IF arr1[i] = arr2[j]
       THEN Append(Backtrack_AlwaysUp(arr1, arr2, dp, i - 1, j - 1), arr1[i])
  ELSE Backtrack_AlwaysUp(arr1, arr2, dp, i - 1, j)

\* The backtrack from (i, j): a common line is put in front of what was
\* collected, otherwise the walk goes up when the cell above is strictly
\* larger and left when it is not.
RECURSIVE Backtrack(_, _, _, _, _)
Backtrack(arr1, arr2, dp, i, j) ==
  IF ~(i > 0 /\ j > 0) THEN <<>>
  ELSE IF arr1[i] = arr2[j]
       THEN Append(Backtrack(arr1, arr2, dp, i - 1, j - 1), arr1[i])
  ELSE IF dp[i - 1, j] > dp[i, j - 1] THEN Backtrack(arr1, arr2, dp, i - 1, j)
  ELSE Backtrack(arr1, arr2, dp, i, j - 1)

longestCommonSubsequence(arr1, arr2) ==
  Backtrack(arr1, arr2, LcsTable(arr1, arr2), Len(arr1), Len(arr2))

\* The three kinds of DiffLine; a line number the code leaves out is
\* UndefinedId.
RemovedLine(content, oldLineNum) ==
  [type |-> "removed", content |-> content, oldLineNumber |-> oldLineNum,
   newLineNumber |-> UndefinedId]
AddedLine(content, newLineNum) ==
  [type |-> "added", content |-> content, oldLineNumber |-> UndefinedId,
   newLineNumber |-> newLineNum]
\* An unchanged line that carries the number after its own as new number.
UnchangedLine_NewNumberAhead(content, oldLineNum, newLineNum) ==
  [type |-> "unchanged", content |-> content, oldLineNumber |-> oldLineNum,
   newLineNumber |-> newLineNum + 1]
UnchangedLine(content, oldLineNum, newLineNum) ==
  [type |-> "unchanged", content |-> content, oldLineNumber |-> oldLineNum,
   newLineNumber |-> newLineNum]

\* The two loops after the common lines, with the second loop left out.
Remaining_RemovedOnly(oldLines, newLines, oldLineNum, newLineNum) ==
  [i \in 1..(Len(oldLines) - oldLineNum + 1) |->
     RemovedLine(oldLines[oldLineNum + i - 1], oldLineNum + i - 1)]
\* The two loops after the common lines: what is left of the old lines is
\* removed, then what is left of the new lines is added.
Remaining(oldLines, newLines, oldLineNum, newLineNum) ==
  [i \in 1..(Len(oldLines) - oldLineNum + 1) |->
     RemovedLine(oldLines[oldLineNum + i - 1], oldLineNum + i - 1)]
  \o [i \in 1..(Len(newLines) - newLineNum + 1) |->
        AddedLine(newLines[newLineNum + i - 1], newLineNum + i - 1)]

\* The loop over the common lines from the k-th one on; oldLineNum and
\* newLineNum are the next line of either side (oldIndex + 1, newIndex + 1).
RECURSIVE DiffFrom(_, _, _, _, _, _)
DiffFrom(oldLines, newLines, lcs, k, oldLineNum, newLineNum) ==
  IF k > Len(lcs) THEN Remaining(oldLines, newLines, oldLineNum, newLineNum)
  ELSE IF oldLineNum <= Len(oldLines) /\ oldLines[oldLineNum] # lcs[k]
       THEN <<RemovedLine(oldLines[oldLineNum], oldLineNum)>>
            \o DiffFrom(oldLines, newLines, lcs, k, oldLineNum + 1, newLineNum)
  ELSE IF newLineNum <= Len(newLines) /\ newLines[newLineNum] # lcs[k]
       THEN <<AddedLine(newLines[newLineNum], newLineNum)>>
            \o DiffFrom(oldLines, newLines, lcs, k, oldLineNum, newLineNum + 1)
  ELSE IF oldLineNum <= Len(oldLines) /\ newLineNum <= Len(newLines)
       THEN <<UnchangedLine(lcs[k], oldLineNum, newLineNum)>>
            \o DiffFrom(oldLines, newLines, lcs, k + 1, oldLineNum + 1, newLineNum + 1)
  ELSE DiffFrom(oldLines, newLines, lcs, k + 1, oldLineNum, newLineNum)

computeDiff(oldLines, newLines) ==
  DiffFrom(oldLines, newLines, longestCommonSubsequence(oldLines, newLines), 1, 1, 1)

OfType(lines, type) == SelectSeq(lines, LAMBDA l : l.type = type)

diff(oldText, newText) ==
  LET diffLines == computeDiff(split(oldText, Newline), split(newText, Newline))
  IN [lines |-> diffLines,
      stats |-> [added |-> Len(OfType(diffLines, "added")),
                 removed |-> Len(OfType(diffLines, "removed")),
                 unchanged |-> Len(OfType(diffLines, "unchanged"))]]

\* `n || 1` on a line number.
OrOne(n) == IF n = UndefinedId THEN 1 ELSE n

\* The condition of the loop that looks for the end of the changes of a hunk;
\* h counts the lines before the one looked at, as the code's index does.
InChanges(lines, h) ==
  /\ h < Len(lines)
  /\ \/ lines[h + 1].type # "unchanged"
     \/ (h < Len(lines) - 1 /\ lines[h + 2].type # "unchanged")

\* The hunks from index i on: hunkStart and hunkEnd bound the lines of the
\* hunk (hunkStart + 1 .. hunkEnd of the sequence), the other four fields are
\* the numbers of its header.
RECURSIVE Hunks(_, _, _)
Hunks(lines, context, i) ==
  LET changed == CHOOSE c \in i..Max(i, Len(lines)) :
                   /\ c >= Len(lines) \/ lines[c + 1].type # "unchanged"
                   /\ \A h \in i..(c - 1) : lines[h + 1].type = "unchanged"
  IN IF changed >= Len(lines) THEN <<>>
     ELSE LET hunkStart == Max(0, changed - context)
              changesEnd == CHOOSE e \in changed..Len(lines) :
                              /\ ~InChanges(lines, e)
                              /\ \A h \in changed..(e - 1) : InChanges(lines, h)
              hunkEnd == Min(Len(lines), changesEnd + context)
          IN <<[hunkStart |-> hunkStart, hunkEnd |-> hunkEnd,
                oldStart |-> OrOne(lines[hunkStart + 1].oldLineNumber),
                newStart |-> OrOne(lines[hunkStart + 1].newLineNumber),
                oldCount |-> hunkEnd - hunkStart,
                newCount |-> hunkEnd - hunkStart]>>
             \o Hunks(lines, context, hunkEnd)

Prefix(line) ==
  IF line.type = "added" THEN "+" ELSE IF line.type = "removed" THEN "-" ELSE " "

\* unifiedDiff: the two file lines, then per hunk its header and its lines,
\* each under its prefix; the output lines are kept apart instead of joined.
RECURSIVE HunkLines(_, _)
HunkLines(lines, hunks) ==
  IF hunks = <<>> THEN <<>>
  ELSE LET hunk == Head(hunks)
       IN <<<<"@@", hunk.oldStart, hunk.oldCount, hunk.newStart, hunk.newCount>>>>
          \o [j \in 1..(hunk.hunkEnd - hunk.hunkStart) |->
                <<Prefix(lines[hunk.hunkStart + j]), lines[hunk.hunkStart + j].content>>]
          \o HunkLines(lines, Tail(hunks))

unifiedDiff(oldText, newText, context) ==
  LET lines == diff(oldText, newText).lines
  IN <<"--- old", "+++ new">> \o HunkLines(lines, Hunks(lines, context, 0))

\* The diff engine applied once, to any pair of texts.
Kept == UNCHANGED <<memoryTable, versionTable, eventTable, relationshipTable, uuid,
                    now, last, calls, service, queue>>

Diff ==
  /\ applied = NoCall
  /\ \E oldText \in Texts, newText \in Texts :
       applied' = [op |-> "diff", oldText |-> oldText, newText |-> newText,
                   ret |-> diff(oldText, newText)]
  /\ Kept

UnifiedDiff ==
  /\ applied = NoCall
  /\ \E oldText \in Texts, newText \in Texts, context \in Contexts :
       applied' = [op |-> "unifiedDiff", oldText |-> oldText, newText |-> newText,
                   context |-> context,
                   lines |-> diff(oldText, newText).lines,
                   hunks |-> Hunks(diff(oldText, newText).lines, context, 0),
                   ret |-> unifiedDiff(oldText, newText, context)]
  /\ Kept

NextDiff ==
  \/ Diff
  \/ UnifiedDiff

SpecDiff == Init /\ [][NextDiff]_vars

\* ---------------------------------------------------------- vector search
\* Content vectors are unit vectors of two components counted in fifths;
\* distances, scores and thresholds are counted in hundredths.
MaxRows == 3
Vectors == {<<5, 0>>, <<4, 3>>, <<3, 4>>}
\* The vectors queries are made with.
QueryVectors == {<<5, 0>>, <<4, 3>>}
TagLists == {<<"a">>, <<"b">>}

DefaultLimit == 10
DefaultThreshold == 70
DefaultMetadataThreshold == 50
DefaultMinSimilarity == 70
Tenth == 10

RECURSIVE DotFrom(_, _, _)
DotFrom(a, b, i) ==
  IF i > Len(a) THEN 0 ELSE a[i] * b[i] + DotFrom(a, b, i + 1)
Dot(a, b) == DotFrom(a, b, 1)

Difference(a, b) == [i \in 1..Len(a) |-> a[i] - b[i]]

\* The _distance LanceDB reports for a row: the squared L2 distance; a
\* square of fifths is four hundredths.
Distance(a, b) == 4 * Dot(Difference(a, b), Difference(a, b))

\* Math.sqrt on the squares the vectors have as magnitudes.
Sqrt(n) == CHOOSE r \in 0..n : r * r = n

\* cosineSimilarity: 0 when a magnitude is 0, else the dot product over the
\* product of the magnitudes.
cosineSimilarity(a, b) ==
  LET dotProduct == Dot(a, b)
      magnitudeA == Sqrt(Dot(a, a))
      magnitudeB == Sqrt(Dot(b, b))
  IN IF magnitudeA = 0 \/ magnitudeB = 0 THEN 0
     ELSE (100 * dotProduct) \div (magnitudeA * magnitudeB)

\* The rows in every order that puts a nearer row before a farther one.
RECURSIVE NearestFirst(_, _)
NearestFirst(rows, vector) ==
  IF rows = {} THEN {<<>>}
  ELSE UNION {{<<m>> \o rest : rest \in NearestFirst(rows \ {m}, vector)} :
              m \in {x \in rows :
                       \A y \in rows : Distance(vector, x.embedding)
                                         <= Distance(vector, y.embedding)}}

\* table.search(vector).limit(k).toArray() over the rows a where clause
\* lets through: the k nearest rows, nearest first, each with its distance.
\* Rows at the same distance come in an order the table chooses.
VectorSearch(rows, vector, k) ==
  {[i \in 1..Min(k, Len(q)) |->
      [row |-> q[i], distance |-> Distance(vector, q[i].embedding)]] :
   q \in NearestFirst(rows, vector)}

\* `o || d` on an optional number.
OrDefault(o, d) == IF IsDefined(o) /\ Get(o) # 0 THEN Get(o) ELSE d

Includes(seq, x) == \E i \in 1..Len(seq) : seq[i] = x

\* The Memory of a search result: the row without its vectors.
MemoryOf(row, content, text) ==
  [id |-> row.id, type |-> row.type, content |-> content, text |-> text,
   source |-> row.source, tags |-> row.tags, confidence |-> row.confidence,
   title |-> row.title, current_version |-> row.current_version,
   created_at |-> row.created_at, updated_at |-> row.updated_at,
   relationship_count |-> row.relationship_count]

\* The search results of the fetched rows that reach the threshold, score
\* being 1 - distance.
AtLeast(fetched, threshold, includeContent, matched) ==
  LET Result(f) ==
        [memory |-> MemoryOf(f.row, IF includeContent THEN f.row.content ELSE "{}",
                             IF includeContent THEN f.row.text ELSE ""),
         score |-> 100 - f.distance, matched_on |-> matched]
  IN SelectSeq([i \in 1..Len(fetched) |-> Result(fetched[i])],
               LAMBDA r : r.score >= threshold)

\* search: every answer the table's order of equidistant rows allows.
search(s, options, queryEmbedding) ==
  LET limit == OrDefault(options.limit, DefaultLimit)
      threshold == OrDefault(options.threshold, DefaultThreshold)
      rows == IF IsDefined(options.types) /\ Len(Get(options.types)) > 0
              THEN {m \in s.memoryTable : Includes(Get(options.types), m.type)}
              ELSE s.memoryTable
      Answer(results) ==
        LET searchResults ==
              AtLeast(results, threshold,
                      IsDefined(options.includeContent) /\ Get(options.includeContent),
                      "content")
        IN IF IsDefined(options.tags) /\ Len(Get(options.tags)) > 0
           THEN SelectSeq(searchResults,
                          LAMBDA r : \E i \in 1..Len(Get(options.tags)) :
                                       Includes(r.memory.tags, Get(options.tags)[i]))
           ELSE SubSeq(searchResults, 1, Min(limit, Len(searchResults)))
  IN {Answer(results) : results \in VectorSearch(rows, queryEmbedding, limit * 2)}

\* searchWithMetadataEmbedding: the results are collected until there are
\* limit of them.
searchWithMetadataEmbedding(s, queryEmbedding, options) ==
  LET limit == OrDefault(options.limit, DefaultLimit)
      threshold == OrDefault(options.threshold, DefaultMetadataThreshold)
      Answer(results) ==
        LET searchResults == AtLeast(results, threshold, TRUE, "metadata")
        IN SubSeq(searchResults, 1, Min(limit, Len(searchResults)))
  IN {Answer(results) : results \in VectorSearch(s.memoryTable, queryEmbedding, limit * 2)}

\* The where clause of findSimilarMemories with the queried memory let
\* through.
Others_WithSelf(s, memoryId) == s.memoryTable
\* The where clause of findSimilarMemories: `id != memoryId`.
Others(s, memoryId) == {m \in s.memoryTable : m.id # memoryId}

\* Array.prototype.sort((a, b) => b.score - a.score): descending and stable.
RECURSIVE SortByScore(_)
SortByScore(results) ==
  IF results = <<>> THEN <<>>
  ELSE LET sorted == SortByScore(SubSeq(results, 1, Len(results) - 1))
           x == results[Len(results)]
           ahead == SelectSeq(sorted, LAMBDA r : r.score >= x.score)
           behind == SelectSeq(sorted, LAMBDA r : r.score < x.score)
       IN ahead \o <<x>> \o behind

\* findSimilarMemories: every answer the table's order allows.
findSimilarMemories(s, memoryId, limit, threshold) ==
  LET memory == getMemory(s, memoryId)
      Answer(results) ==
        LET similar ==
              SelectSeq(
                [i \in 1..Len(results) |->
                   [memory |-> MemoryOf(results[i].row, results[i].row.content,
                                        results[i].row.text),
                    score |-> cosineSimilarity(Get(memory).embedding,
                                               results[i].row.embedding),
                    matched_on |-> "content"]],
                LAMBDA r : r.score >= threshold)
            sorted == SortByScore(similar)
        IN SubSeq(sorted, 1, Min(limit, Len(sorted)))
  IN IF ~IsDefined(memory) THEN {<<>>}
     ELSE {Answer(results) :
             results \in VectorSearch(Others(s, memoryId), Get(memory).embedding,
                                      limit * 2)}

\* The vector listMemories queries with: Array(768).fill(0).
ZeroVector == <<0, 0>>

\* listMemories: limit rows of the type filter are fetched, the tag filter
\* is applied to them in memory, and the first offset of what is left are
\* dropped.  Every answer the table's order allows.
listMemories(s, limit, offset, types, tags) ==
  LET rows == IF IsDefined(types) /\ Len(Get(types)) > 0
              THEN {m \in s.memoryTable : Includes(Get(types), m.type)}
              ELSE s.memoryTable
      Answer(results) ==
        LET fetched == [i \in 1..Len(results) |->
                          MemoryOf(results[i].row, results[i].row.content,
                                   results[i].row.text)]
            memories == IF IsDefined(tags) /\ Len(Get(tags)) > 0
                        THEN SelectSeq(fetched,
                                       LAMBDA m : \E i \in 1..Len(Get(tags)) :
                                                    Includes(m.tags, Get(tags)[i]))
                        ELSE fetched
        IN SubSeq(memories, offset + 1, Len(memories))
  IN {Answer(results) : results \in VectorSearch(rows, ZeroVector, limit)}

\* The stores a search runs on: up to MaxRows memories stored one after the
\* other, each with a content vector and a tag list.
RECURSIVE StoredWith(_)
StoredWith(rows) ==
  IF rows = <<>> THEN EmptyDB
  ELSE LET row == rows[Len(rows)]
           body == CHOOSE b \in CreateInputs :
                     IsDefined(b.type) /\ Get(b.text) # "" /\ b.tags = None /\ b.title = None
       IN storeMemory(StoredWith(SubSeq(rows, 1, Len(rows) - 1)),
                      [body EXCEPT !.tags = Some(row[2])],
                      row[1], generateForMetadata("", row[2]), Len(rows)).db

SearchStores ==
  {StoredWith(rows) : rows \in UNION {[1..n -> Vectors \X TagLists] : n \in 0..MaxRows}}

InitSearch ==
  /\ \E s \in SearchStores :
       /\ memoryTable = s.memoryTable
       /\ versionTable = s.versionTable
       /\ eventTable = s.eventTable
       /\ relationshipTable = s.relationshipTable
       /\ uuid = s.uuid
  /\ now = MaxRows + 1
  /\ last = NoLast
  /\ calls = [p \in Procs |-> Idle]
  /\ applied = NoCall
  /\ service = [k \in Services |-> Constructed]
  /\ queue = Started

\* SearchOptions as POST /api/search carries them.
SearchOptions ==
  [limit : Opt({1, 2}), threshold : Opt({0, 50}), types : {None},
   tags : Opt({<<"a">>}), includeContent : {None}]

Search ==
  /\ applied = NoCall
  /\ \E options \in SearchOptions, queryEmbedding \in QueryVectors :
       \E ret \in search(DB, options, queryEmbedding) :
         applied' = [op |-> "search", options |-> options,
                     queryEmbedding |-> queryEmbedding, ret |-> ret]
  /\ Kept

\* GET /api/memories/:id/similar with its parsed limit and threshold.
FindSimilar ==
  /\ applied = NoCall
  /\ \E id \in 1..(MaxRows + 1), limit \in {1, 2}, threshold \in {50, 70} :
       /\ Exists(DB, id)
       /\ \E ret \in findSimilarMemories(DB, id, limit, threshold) :
            applied' = [op |-> "findSimilarMemories", id |-> id, limit |-> limit,
                        threshold |-> threshold, ret |-> ret]
  /\ Kept

\* GET /api/memories with its parsed limit, offset, types and tags.
ListMemories ==
  /\ applied = NoCall
  /\ \E limit \in {1, 2}, offset \in {0, 1}, types \in Opt({<<"note">>}),
        tags \in Opt({<<"a">>}) :
       \E ret \in listMemories(DB, limit, offset, types, tags) :
         applied' = [op |-> "listMemories", limit |-> limit, offset |-> offset,
                     types |-> types, tags |-> tags, ret |-> ret]
  /\ Kept

\* A number passed where SearchOptions are expected: it has none of their
\* properties.
NumberAsOptions ==
  [limit |-> None, threshold |-> None, types |-> None, tags |-> None,
   includeContent |-> None]

\* MemoryTools.searchMemories.  The tool hands the query string, limit,
\* minSimilarity and filterTags to searchWithMetadataEmbedding(queryEmbedding,
\* options): the string stands where the vector is expected and the limit
\* where the options are.  What the table makes of a string query is its own
\* business: it rejects it (read is None) or searches by some vector.
SearchMemories ==
  /\ applied = NoCall
  /\ \E args \in [minSimilarity : Opt({0, 5, 100})], read \in Opt(QueryVectors) :
       LET minSimilarity == Coalesce(args.minSimilarity, DefaultMinSimilarity)
           fallbackThreshold == Max(0, minSimilarity - Tenth)
           Called(threshold, results) == [threshold |-> threshold, results |-> results]
           Told(searches, usedFallback, actualThreshold, memories) ==
             [op |-> "searchMemories", minSimilarity |-> minSimilarity, read |-> read,
              threw |-> ~IsDefined(read), searches |-> searches,
              usedFallback |-> usedFallback, actualThreshold |-> actualThreshold,
              ret |-> memories]
       IN IF ~IsDefined(read)
          THEN applied' = Told(<<Called(minSimilarity, <<>>)>>, FALSE, minSimilarity, <<>>)
          ELSE \E first \in searchWithMetadataEmbedding(DB, Get(read), NumberAsOptions) :
                 IF Len(first) = 0 /\ minSimilarity > 0
                 THEN \E second \in searchWithMetadataEmbedding(DB, Get(read),
                                                                 NumberAsOptions) :
                        applied' = Told(<<Called(minSimilarity, first),
                                          Called(fallbackThreshold, second)>>,
                                        Len(second) > 0,
                                        IF Len(second) > 0 THEN fallbackThreshold
                                        ELSE minSimilarity,
                                        second)
                 ELSE applied' = Told(<<Called(minSimilarity, first)>>, FALSE,
                                      minSimilarity, first)
  /\ Kept

NextSearch ==
  \/ Search
  \/ FindSimilar
  \/ SearchMemories
  \/ ListMemories

SpecSearch == InitSearch /\ [][NextSearch]_vars

\* ------------------------------------------- EmbeddingService, LlmService
\* Callers of initialize() and of generate(text), await by await.  A caller
\* holds the method it runs (op), the service it runs on (on), the await it
\* stands at (pc), whether it found the initialization running when it
\* arrived (joined), and what it got back.
EMBEDDING_DIMENSIONS == 768

Caller(op, on, pc, joined) ==
  [op |-> op, on |-> on, pc |-> pc, joined |-> joined, status |-> "none", ret |-> None]

Methods == {<<"initialize", "EmbeddingService">>, <<"initialize", "LlmService">>,
            <<"generate", "EmbeddingService">>}

\* The vector of a text as the model returns it, and the random normalized
\* vector generateFallbackEmbedding() makes up.
Embedding(text) ==
  [dimensions |-> EMBEDDING_DIMENSIONS, normalized |-> TRUE, of |-> text]
generateFallbackEmbedding ==
  [dimensions |-> EMBEDDING_DIMENSIONS, normalized |-> TRUE, of |-> "random"]

KeptByService ==
  UNCHANGED <<memoryTable, versionTable, eventTable, relationshipTable, uuid, now,
              last, applied, queue>>

\* `if (this.initializationPromise)` with the promise never found.
InProgress_Never(fields) == FALSE
\* `if (this.initializationPromise)`: an initialization was started.
InProgress(fields) == fields.initializationPromise # Null

\* initialize() up to its await, also as the first statement of generate():
\* nothing to do when initialized, the running initialization is joined when
\* there is one, otherwise _initialize() is started and its promise kept.
Arrive(p) ==
  /\ calls[p].pc \in {"idle", "returned"}
  /\ \E method \in Methods :
       LET on == method[2]
           fields == service[on]
       IN /\ calls' = [calls EXCEPT ![p] =
                         Caller(method[1], on, "awaiting",
                                ~fields.initialized /\ fields.initializationPromise = "pending")]
          /\ IF fields.initialized \/ InProgress(fields)
             THEN UNCHANGED service
             ELSE /\ fields.started <= MaxCalls
                  /\ service' = [service EXCEPT ![on].initializationPromise = "pending",
                                                ![on].started = @ + 1]
  /\ KeptByService

\* _initialize() comes to its end.  The embedding model loads, or the load
\* throws and the promise is rejected; the LLM loads, or its file is missing
\* or its load throws, which _initialize() swallows.
Loaded ==
  /\ \E on \in Services, loads \in BOOLEAN :
       /\ service[on].initializationPromise = "pending"
       /\ service' = [service EXCEPT
                        ![on].initialized = loads,
                        ![on].initializationPromise =
                          IF loads \/ on = "LlmService" THEN "fulfilled" ELSE "rejected"]
  /\ UNCHANGED calls
  /\ KeptByService

\* The awaited initialization has settled: the caller goes on, or throws
\* what the rejected promise throws.  generate() then answers from the cache
\* or asks the model.
Resume(p) ==
  /\ calls[p].pc = "awaiting"
  /\ LET fields == service[calls[p].on]
     IN /\ fields.initialized \/ fields.initializationPromise \in {"fulfilled", "rejected"}
        /\ calls' = [calls EXCEPT ![p] =
             IF ~fields.initialized /\ fields.initializationPromise = "rejected"
             THEN [@ EXCEPT !.pc = "returned", !.status = "error"]
             ELSE IF @.op = "initialize"
             THEN [@ EXCEPT !.pc = "returned", !.status = "ok"]
             ELSE IF "x1" \in fields.cache
             THEN [@ EXCEPT !.pc = "returned", !.status = "ok", !.ret = Some(Embedding("x1"))]
             ELSE [@ EXCEPT !.pc = "embedder"]]
  /\ UNCHANGED service
  /\ KeptByService

\* generate() after `await this.embedder(...)`: the vector is cached and
\* returned, or the call threw (or the vector had the wrong length) and the
\* fallback vector is returned.
Embedded(p) ==
  /\ calls[p].pc = "embedder"
  /\ \E infers \in BOOLEAN :
       IF infers
       THEN /\ calls' = [calls EXCEPT ![p].pc = "returned", ![p].status = "ok",
                                      ![p].ret = Some(Embedding("x1"))]
            /\ service' = [service EXCEPT ![calls[p].on].cache = @ \cup {"x1"}]
       ELSE /\ calls' = [calls EXCEPT ![p].pc = "returned", ![p].status = "ok",
                                      ![p].ret = Some(generateFallbackEmbedding)]
            /\ UNCHANGED service
  /\ KeptByService

NextService ==
  \E p \in Procs :
    \/ Arrive(p)
    \/ Loaded
    \/ Resume(p)
    \/ Embedded(p)

SpecService == Init /\ [][NextService]_vars

\* ------------------------------------------------------ MemoryTools.edit
\* Texts of at most MaxEdit characters over two letters; old_text and
\* new_text are shorter by one.
MaxEdit == 3
Letters == {"a", "b"}
Strings(n) == UNION {[1..k -> Letters] : k \in 0..n}

\* String.prototype.indexOf(pattern, from): characters before the first
\* occurrence at or after from, -1 when there is none.
Occurs(text, pattern, i) ==
  /\ i + Len(pattern) <= Len(text)
  /\ SubSeq(text, i + 1, i + Len(pattern)) = pattern
indexOf(text, pattern, from) ==
  IF \E i \in from..Len(text) : Occurs(text, pattern, i)
  THEN CHOOSE i \in from..Len(text) :
         /\ Occurs(text, pattern, i)
         /\ \A h \in from..(i - 1) : ~Occurs(text, pattern, h)
  ELSE 0 - 1

\* String.prototype.includes
includes(text, pattern) == indexOf(text, pattern, 0) # 0 - 1

\* String.prototype.replaceAll with a string pattern: the occurrences are
\* taken from the left without overlap; the empty pattern occurs before every
\* character and at the end.
RECURSIVE replaceAll(_, _, _)
replaceAll(text, pattern, replacement) ==
  IF pattern = <<>>
  THEN IF text = <<>> THEN replacement
       ELSE replacement \o <<Head(text)>> \o replaceAll(Tail(text), pattern, replacement)
  ELSE LET index == indexOf(text, pattern, 0)
       IN IF index = 0 - 1 THEN text
          ELSE SubSeq(text, 1, index) \o replacement
               \o replaceAll(SubSeq(text, index + Len(pattern) + 1, Len(text)),
                             pattern, replacement)

\* The first occurrence replaced: substring(0, index) + new_text +
\* substring(index + old_text.length).
ReplaceFirst(text, old_text, new_text) ==
  LET index == indexOf(text, old_text, 0)
  IN SubSeq(text, 1, index) \o new_text
     \o SubSeq(text, index + Len(old_text) + 1, Len(text))

\* countOccurrences: the loop goes on while indexOf finds the pattern at or
\* after index, and moves index past what it found.  It returns the count
\* (Some); when an iteration leaves index where it was, which is what an
\* empty pattern does, every later iteration finds the same and the loop
\* never ends (None).
RECURSIVE CountFrom(_, _, _)
CountFrom(text, pattern, index) ==
  LET found == indexOf(text, pattern, index)
  IN IF found = 0 - 1 THEN Some(0)
     ELSE IF found + Len(pattern) = index THEN None
     ELSE LET rest == CountFrom(text, pattern, found + Len(pattern))
          IN IF IsDefined(rest) THEN Some(1 + Get(rest)) ELSE None
countOccurrences(text, pattern) == CountFrom(text, pattern, 0)

\* A string passed where a MemoryUpdateInput is expected: it has none of
\* its fields.
StringAsUpdates == [f \in FieldNames |-> None]

\* `v || ...` on a string passed as a vector.
Truthy(string, empty) == IF string = empty THEN None ELSE Some(string)

\* The store an edit runs on: one memory with the given text.
StoredText(text) ==
  LET body == CHOOSE b \in CreateInputs :
                IsDefined(b.type) /\ Get(b.text) # "" /\ b.tags = None /\ b.title = None
  IN storeMemory(EmptyDB, [body EXCEPT !.text = Some(text)], generateForContent(text),
                 generateForMetadata("", <<>>), 1).db

InitEdit ==
  /\ \E text \in Strings(MaxEdit) \ {<<>>} :
       /\ memoryTable = StoredText(text).memoryTable
       /\ versionTable = StoredText(text).versionTable
       /\ eventTable = StoredText(text).eventTable
       /\ relationshipTable = StoredText(text).relationshipTable
       /\ uuid = StoredText(text).uuid
  /\ now = 2
  /\ last = NoLast
  /\ calls = [p \in Procs |-> Idle]
  /\ applied = NoCall
  /\ service = [k \in Services |-> Constructed]
  /\ queue = Started

\* MemoryTools.edit.  The tool calls storage.updateMemory(id, type, newContent,
\* source, tags, confidence, title) on updateMemory(id, updates, embedding,
\* embeddingMetadata): the type string stands for the partial and the new text
\* for the content vector.  Whether the table takes a row with a string in
\* its vector column is the table's business: it adds the row (accepted) or
\* throws, after the snapshot was written and the old row deleted.
ToolEdit ==
  /\ last = NoLast
  /\ \E id \in 1..2, old_text \in Strings(MaxEdit - 1), new_text \in Strings(MaxEdit - 1),
        replace_all \in BOOLEAN, accepted \in BOOLEAN :
       LET existingMemory == getMemory(DB, id)
           Told(status, why, ret) ==
             [NoLast EXCEPT !.op = "edit", !.via = "tool", !.status = status, !.why = why,
                            !.id = id, !.pre = existingMemory, !.ret = ret,
                            !.upd = Some([old_text |-> old_text, new_text |-> new_text,
                                          replace_all |-> replace_all])]
       IN IF ~IsDefined(existingMemory)
          THEN last' = Told("notfound", "memory", None) /\ Unwritten
          ELSE LET text == Get(existingMemory).text
                   newContent == IF replace_all THEN replaceAll(text, old_text, new_text)
                                 ELSE ReplaceFirst(text, old_text, new_text)
               IN IF ~includes(text, old_text)
                  THEN last' = Told("rejected", "old_text", None) /\ Unwritten
                  ELSE IF replace_all /\ ~IsDefined(countOccurrences(text, old_text))
                  THEN last' = Told("hangs", "countOccurrences", None) /\ Unwritten
                  ELSE IF newContent = text
                  THEN last' = Told("unchanged", "identical", None) /\ Unwritten
                  ELSE /\ now < MaxClock
                       /\ now' = now + 1
                       /\ IF accepted
                          THEN LET r == updateMemory(DB, id, StringAsUpdates,
                                                     Truthy(newContent, <<>>),
                                                     Truthy(Get(existingMemory).source, ""), now)
                               IN last' = Told("ok", "", r.ret) /\ Commit(r.db)
                          ELSE /\ last' = Told("error", "add", None)
                               /\ Commit(DeleteRows(
                                    createVersionSnapshot(DB, Get(existingMemory),
                                                          getRelationshipIds(DB, id), now),
                                    id))

SpecEdit == InitEdit /\ [][ToolEdit]_vars

\* ------------------------------------------------------ the diff endpoint
\* GET /api/memories/:id/diff.  The texts the store holds have one line each,
\* so diff.diff splits each into the one line it is.  getVersionHistory
\* hands its versions highest version_number first.
GetDiff ==
  \E id \in MemIds, from_version \in Opt(1..(uuid.version + 1)),
     to_version \in Opt(1..(uuid.version + 1)) :
    LET current == getMemory(DB, id)
        versions == getVersionHistory(DB, id)
        fromVer == getVersion(DB, Get(from_version))
        toVer == getVersion(DB, Get(to_version))
        Answered(status, why, ret) ==
          last' = [NoLast EXCEPT !.op = "diff", !.via = "rest", !.status = status,
                                 !.why = why, !.id = id, !.ret = ret,
                                 !.upd = Some([from_version |-> from_version,
                                               to_version |-> to_version])]
        Compared(oldText, newText, oldVersion, newVersion) ==
          Answered("ok", "",
                   Some([from_version |-> oldVersion, to_version |-> newVersion,
                         oldText |-> oldText, newText |-> newText,
                         diff |-> computeDiff(<<oldText>>, <<newText>>)]))
    IN /\ Unwritten
       /\ IF ~IsDefined(current) THEN Answered("notfound", "memory", None)
          ELSE IF ~IsDefined(from_version) /\ ~IsDefined(to_version)
          THEN IF versions = {} THEN Answered("notfound", "history", None)
               ELSE \E first \in versions :
                      /\ \A v \in versions : v.version_number <= first.version_number
                      /\ Compared(first.text, Get(current).text, first.version_number,
                                  Get(current).current_version)
          ELSE IF IsDefined(from_version) /\ IsDefined(to_version)
          THEN IF ~IsDefined(fromVer) \/ ~IsDefined(toVer)
               THEN Answered("notfound", "version", None)
               ELSE Compared(Get(fromVer).text, Get(toVer).text,
                             Get(fromVer).version_number, Get(toVer).version_number)
          ELSE IF IsDefined(from_version)
          THEN IF ~IsDefined(fromVer) THEN Answered("notfound", "version", None)
               ELSE Compared(Get(fromVer).text, Get(current).text,
                             Get(fromVer).version_number, Get(current).current_version)
          ELSE Answered("invalid", "parameters", None)

\* The create and update routes and the diff endpoint alone.
NextVersions ==
  \/ PostMemoryOf({b \in CreateInputs : IsDefined(b.tags) \/ b.type = Some("task")})
  \/ PutMemoryOf({u \in UpdateInputs : Named(u) = {"text"}})
  \/ GetDiff

SpecVersions == Init /\ [][NextVersions]_vars

\* ------------------------------------------- QueueService progress events
Statuses == {"active", "completed", "failed"}

\* What the callback of a progress stream writes for a JobProgress.
ProgressData(jobId, status) == [type |-> "progress", jobId |-> jobId, status |-> status]

\* progressListeners.set(jobId, callback)
addProgressListener(q, jobId, callback) ==
  [q EXCEPT !.progressListeners[jobId] = Some(callback)]

\* progressListeners.delete(jobId)
removeProgressListener(q, jobId) ==
  [q EXCEPT !.progressListeners[jobId] = None]

\* emitProgress: the listener found under the job id, if there is one, is
\* called, and writes to the stream it was made for.
emitProgress(q, jobId, status) ==
  LET listener == q.progressListeners[jobId]
  IN IF IsDefined(listener)
     THEN [q EXCEPT !.streams[Get(listener)].written =
                      Append(@, ProgressData(jobId, status))]
     ELSE q

KeptByQueue ==
  UNCHANGED <<memoryTable, versionTable, eventTable, relationshipTable, uuid, now,
              last, calls, applied, service>>

\* GET /api/admin/jobs/:jobId/progress: the stream is opened with its
\* connection message and its callback is registered under the job id.
GetJobProgress(c) ==
  /\ queue.streams[c].state = "none"
  /\ \E jobId \in Jobs :
       queue' = addProgressListener(
                  [queue EXCEPT !.streams[c] =
                     [state |-> "open", jobId |-> jobId,
                      written |-> <<[type |-> "connected", jobId |-> jobId,
                                     status |-> "none"]>>]],
                  jobId, c)
  /\ KeptByQueue

\* A progress, completed or failed event of a queue arrives; after a
\* completed or failed event the job emits no more.
Emit ==
  /\ Len(queue.emitted) < MaxEvents
  /\ \E jobId \in Jobs, status \in Statuses :
       /\ \A i \in 1..Len(queue.emitted) :
            queue.emitted[i].jobId = jobId => queue.emitted[i].status = "active"
       /\ queue' = [emitProgress(queue, jobId, status) EXCEPT
                      !.emitted = Append(@, [jobId |-> jobId, status |-> status])]
  /\ KeptByQueue

\* The stream closes, because the client went away or because the route
\* ended it a second after a completed or failed event: either close handler
\* removes the listener kept under the job id of the stream.
Close(c) ==
  /\ queue.streams[c].state = "open"
  /\ queue' = removeProgressListener(
                [queue EXCEPT !.streams[c].state = "closed"],
                queue.streams[c].jobId)
  /\ KeptByQueue

NextQueue ==
  \/ \E c \in Clients : GetJobProgress(c)
  \/ Emit
  \/ \E c \in Clients : Close(c)

SpecQueue == Init /\ [][NextQueue]_vars

\* ----------------------------------------------------------------- claims
\* The seven versioned fields of a memory row or of a version row.
Fields(r) == <<r.type, r.content, r.text, r.source, r.tags, r.confidence, r.title>>

RowIn(table, id) == CHOOSE m \in table : m.id = id
VersionsIn(table, id) == {v \in table : v.memory_id = id}
EventsIn(table, id) == {e \in table : e.memory_id = id}
HighestVersionNumber(id) ==
  CHOOSE n \in {v.version_number : v \in VersionsIn(versionTable, id)} :
    \A v \in VersionsIn(versionTable, id) : v.version_number <= n

Succeeded(op) == last.op = op /\ last.status = "ok"
SucceededNext(op) == last'.op = op /\ last'.status = "ok"

\* C1: current_version starts at 1, every successful update or revert raises
\* it by exactly 1, and right after an update or revert it is one more than
\* the highest version_number among the memory's snapshots.
C1_VersionCounter ==
  /\ Succeeded("create") => RowIn(memoryTable, last.id).current_version = 1
  /\ (Succeeded("update") \/ Succeeded("revert")) =>
       /\ RowIn(memoryTable, last.id).current_version = Get(last.pre).current_version + 1
       /\ RowIn(memoryTable, last.id).current_version = HighestVersionNumber(last.id) + 1

C1_Witness ==
  /\ Succeeded("revert")
  /\ RowIn(memoryTable, last.id).current_version = 3

\* C2: after a successful update the history of the memory holds a version
\* with the pre-update values of the seven fields and the pre-update
\* current_version as its version_number.
C2_UpdateSnapshotsPreState ==
  Succeeded("update") =>
    \E v \in getVersionHistory(DB, last.id) :
      /\ v.version_number = Get(last.pre).current_version
      /\ Fields(v) = Fields(Get(last.pre))

C2_Witness ==
  /\ Succeeded("update")
  /\ Fields(Get(last.ret)) # Fields(Get(last.pre))
  /\ Get(last.pre).current_version = 2

\* C3: every successful update that changes at least one of the seven fields
\* and every successful revert writes exactly one new snapshot, of the
\* pre-mutation state, and appends at least one event for the memory.
C3_OneSnapshotSomeEvent ==
  [][ ( \/ SucceededNext("revert")
        \/ SucceededNext("update") /\ Fields(Get(last'.ret)) # Fields(Get(last'.pre)) )
      => LET id == last'.id
             written == versionTable' \ versionTable
         IN /\ Cardinality(written) = 1
            /\ \A v \in written :
                 /\ v.memory_id = id
                 /\ v.version_number = RowIn(memoryTable, id).current_version
                 /\ Fields(v) = Fields(RowIn(memoryTable, id))
            /\ EventsIn(eventTable', id) \ EventsIn(eventTable, id) # {} ]_vars

C6_RevertEffect ==
  [][ SucceededNext("revert")
      => LET id == last'.id
             v == CHOOSE x \in versionTable : x.version_id = last'.ver
             cur == RowIn(memoryTable, id)
             new == RowIn(memoryTable', id)
             written == versionTable' \ versionTable
             logged == eventTable' \ eventTable
         IN /\ Cardinality(written) = 1
            /\ \A w \in written :
                 /\ w.memory_id = id
                 /\ w.version_number = cur.current_version
                 /\ Fields(w) = Fields(cur)
            /\ Cardinality({m \in memoryTable' : m.id = id}) = 1
            /\ Fields(new) = Fields(v)
            /\ new.created_at = cur.created_at
            /\ new.relationship_count = cur.relationship_count
            /\ new.current_version = cur.current_version + 1
            /\ Cardinality(logged) = 1
            /\ \A e \in logged :
                 /\ e.memory_id = id
                 /\ e.event_type = "memory_reverted"
                 /\ e.event_data.reverted_to_version = v.version_number
                 /\ e.event_data.previous_version = cur.current_version ]_vars

C6_Witness ==
  /\ Succeeded("revert")
  /\ Fields(Get(last.ret)) # Fields(Get(last.pre))
  /\ Get(last.pre).relationship_count > 0

\* C7: a revert to any version followed at once by a revert to the snapshot
\* the first one took restores the seven fields the memory had before the
\* first revert.
C7_RevertRoundTrip ==
  (Succeeded("revert") /\ last.undoes) =>
    Fields(RowIn(memoryTable, last.id)) = Fields(Get(last.orig))

C7_Witness ==
  /\ Succeeded("revert")
  /\ last.undoes
  /\ Fields(Get(last.pre)) # Fields(Get(last.orig))

\* C8: update and delete of an id with no stored memory, and revert to a
\* version that does not exist or belongs to another memory, answer not-found
\* and leave the four tables as they were.
C8_NotFoundWritesNothing ==
  [][ /\ (last'.op \in {"update", "delete", "revert"} /\ last'.status = "notfound")
         => UNCHANGED <<memoryTable, versionTable, eventTable, relationshipTable>>
      /\ (last'.op \in {"update", "delete", "revert"} /\ last'.status = "ok")
         => /\ \E m \in memoryTable : m.id = last'.id
            /\ last'.op = "revert"
               => \E v \in versionTable :
                    v.version_id = last'.ver /\ v.memory_id = last'.id ]_vars

C8_Witness ==
  /\ last.op = "revert"
  /\ last.status = "notfound"
  /\ last.why = "foreign"

\* C9: every stored memory's relationship_count is the number of non-deleted
\* relationships whose from or to is that memory.
C9_RelationshipCountMatches ==
  \A m \in memoryTable :
    m.relationship_count =
      Cardinality({r \in relationshipTable :
                     /\ r.deleted_in_version = Null
                     /\ (r.from_memory_id = m.id \/ r.to_memory_id = m.id)})

\* C10: createRelationship with an endpoint that is no stored memory answers
\* not-found and writes no edge, changes no count and logs no event, through
\* the REST route and through the tool alike.
C10_RelationshipNeedsEndpoints ==
  [][ (last'.op = "createRelationship" /\ ~last'.resolves)
      => /\ last'.status = "notfound"
         /\ UNCHANGED <<memoryTable, versionTable, eventTable, relationshipTable>> ]_vars

\* C16: create, update, revert and createRelationship leave every stored
\* snapshot and event as it is; a snapshot or an event leaves its table only
\* in a successful delete of the memory it belongs to.
C16_HistoryAppendOnly ==
  [][ /\ \A v \in versionTable \ versionTable' :
           SucceededNext("delete") /\ v.memory_id = last'.id
      /\ \A e \in eventTable \ eventTable' :
           SucceededNext("delete") /\ e.memory_id = last'.id ]_vars

C16_Witness ==
  /\ Succeeded("revert")
  /\ Cardinality(getVersionHistory(DB, last.id)) >= 3
  /\ Cardinality(getEvents(DB, last.id)) >= 3

\* The update events of one category that a step appends for a memory.
Appended(id, eventType) ==
  {e \in EventsIn(eventTable', id) \ EventsIn(eventTable, id) : e.event_type = eventType}

\* C17: a successful update appends exactly one event, carrying the new
\* current_version, for each of content, tags, title and type that it
\* changes, and none for a category it leaves as it was.
C17_OneEventPerChangedCategory ==
  [][ SucceededNext("update")
      => LET old == Get(last'.pre)
             new == Get(last'.ret)
             expected(changed, eventType) ==
               /\ Cardinality(Appended(last'.id, eventType)) = IF changed THEN 1 ELSE 0
               /\ \A e \in Appended(last'.id, eventType) :
                    e.version_number = new.current_version
         IN /\ expected(new.content # old.content, "content_updated")
            /\ expected(new.tags # old.tags, "tags_updated")
            /\ expected(new.title # old.title, "title_updated")
            /\ expected(new.type # old.type, "type_updated") ]_vars

C19_EventCarriesProducedVersion ==
  [][ \A e \in eventTable' \ eventTable :
        /\ e.version_number >= 1
        /\ \A m \in memoryTable' :
             m.id = e.memory_id => e.version_number = m.current_version ]_vars

\* C20: a create or update request that lacks a required field or carries a
\* confidence outside [0, 1] is rejected and writes nothing, so every stored
\* memory has a confidence within [0, 1].
C20_InvalidRequestsRejected ==
  [][ /\ last'.status = "invalid"
         => UNCHANGED <<memoryTable, versionTable, eventTable, relationshipTable>>
      /\ ( /\ last'.op = "update" /\ IsDefined(last'.upd)
            /\ IsDefined(Get(last'.upd).confidence)
            /\ Get(Get(last'.upd).confidence) \notin 0..10 )
         => last'.status = "invalid"
      /\ \A m \in memoryTable' : m.confidence \in 0..10 ]_vars

\* ------------------------------------------------- claims on calls in flight
\* No call stands between two of its awaits.
Quiescent == \A p \in Procs : calls[p].status # "running"
\* No table operation has thrown.
NoneThrew == \A p \in Procs : calls[p].status # "error"
Mutates(p) == calls[p].op \in {"update", "revert"}
Answered(p, status) == calls[p].status = status
StoredRow(id) == RowIn(StoredDB.memoryTable, id)

\* C11: whenever no call is in progress, every snapshot, every event and both
\* endpoints of every relationship name a memory that is stored, whatever
\* the interleaving of update, revert, createRelationship and delete.
C11_ReferentialIntegrity ==
  (Quiescent /\ NoneThrew) =>
    /\ \A v \in versionTable : Exists(DB, v.memory_id)
    /\ \A e \in eventTable : Exists(DB, e.memory_id)
    /\ \A r \in relationshipTable :
         Exists(DB, r.from_memory_id) /\ Exists(DB, r.to_memory_id)

\* C12: a read of a memory that no call deletes answers with the memory,
\* never not-found, also between the awaits of a call that rewrites it.
C12_ReadFindsLiveMemory ==
  NoneThrew =>
    \A p \in Procs :
      (calls[p].op = "read" /\ Answered(p, "notfound"))
        => \E q \in Procs : calls[q].op = "delete" /\ calls[q].id = calls[p].id

\* C13: two updates or reverts of one memory that interleave and both answer
\* success return different current_version values, leave the stored
\* current_version two above where it started, and leave one row with the id.
C13_ConcurrentVersionsDistinct ==
  \A p \in Procs : \A q \in Procs :
    ( /\ p < q /\ Quiescent
      /\ Mutates(p) /\ Mutates(q) /\ calls[p].id = calls[q].id
      /\ Answered(p, "ok") /\ Answered(q, "ok") )
    => /\ Get(calls[p].ret).current_version # Get(calls[q].ret).current_version
       /\ Cardinality(RowsById(DB, calls[p].id)) = 1
       /\ \A m \in RowsById(DB, calls[p].id) :
            m.current_version = StoredRow(calls[p].id).current_version + 2

\* C14: once an update or revert has answered success, and whatever count
\* increment or embedding regeneration of the same memory ran beside it, the
\* stored memory has the fields the call returned and a current_version not
\* below the returned one.
C14_StoredStateNeverGoesBack ==
  \A p \in Procs :
    ( /\ Quiescent /\ Mutates(p) /\ Answered(p, "ok")
      /\ \A q \in Procs \ {p} :
           calls[q].op \in {"idle", "createRelationship", "regenerate"} )
    => \E m \in RowsById(DB, calls[p].id) :
         /\ Fields(m) = Fields(Get(calls[p].ret))
         /\ m.current_version >= Get(calls[p].ret).current_version

\* C15: when one table operation of an update or revert throws, the call
\* answers with the error and the memory is still stored, as it was before
\* the call or as the call would have left it.
C15_FailureLeavesMemoryStored ==
  \A p \in Procs :
    ( /\ Mutates(p) /\ Answered(p, "error")
      /\ \A q \in Procs \ {p} : calls[q].op = "idle" )
    => \E m \in RowsById(DB, calls[p].id) :
         \/ m = StoredRow(calls[p].id)
         \/ m.current_version = StoredRow(calls[p].id).current_version + 1

\* ------------------------------------------------ claims on the diff engine
NotOfType(lines, type) == SelectSeq(lines, LAMBDA l : l.type # type)
Contents(lines) == [i \in 1..Len(lines) |-> lines[i].content]

\* C21: the line list of diff(A, B) reproduces both texts: the lines that
\* are not removed, in order, are the lines of B, and the lines that are not
\* added, in order, are the lines of A.
C21_DiffReproducesBothTexts ==
  applied.op = "diff" =>
    /\ Contents(NotOfType(applied.ret.lines, "removed")) = split(applied.newText, Newline)
    /\ Contents(NotOfType(applied.ret.lines, "added")) = split(applied.oldText, Newline)

\* Two texts whose diff has removed, added and unchanged lines.
C21_Witness ==
  /\ applied.op = "diff"
  /\ applied.ret.stats.added > 0
  /\ applied.ret.stats.removed > 0
  /\ applied.ret.stats.unchanged > 0

\* C22: the diff of a text with itself has no added and no removed line and
\* as many unchanged lines as the text has lines, each unchanged line with the
\* same old and new line number.
C22_DiffOfEqualTexts ==
  (applied.op = "diff" /\ applied.oldText = applied.newText) =>
    /\ applied.ret.stats.added = 0
    /\ applied.ret.stats.removed = 0
    /\ applied.ret.stats.unchanged = Len(split(applied.oldText, Newline))
    /\ Len(applied.ret.lines) = Len(split(applied.oldText, Newline))
    /\ \A i \in 1..Len(applied.ret.lines) :
         /\ applied.ret.lines[i].type = "unchanged"
         /\ applied.ret.lines[i].oldLineNumber = i
         /\ applied.ret.lines[i].newLineNumber = i

\* A text of several lines, one of them repeated, diffed with itself.
C22_Witness ==
  /\ applied.op = "diff"
  /\ applied.oldText = applied.newText
  /\ \E i, j \in 1..Len(applied.ret.lines) :
       i # j /\ applied.ret.lines[i].content = applied.ret.lines[j].content
  /\ \E i, j \in 1..Len(applied.ret.lines) :
       applied.ret.lines[i].content # applied.ret.lines[j].content

\* The lines of a hunk, and those of them that have an old or a new side.
LinesOf(hunk) == SubSeq(applied.lines, hunk.hunkStart + 1, hunk.hunkEnd)

\* C23: every hunk header of unifiedDiff is conventional: oldCount is the
\* number of unchanged and removed lines of the hunk, newCount the number of
\* its unchanged and added lines, and oldStart and newStart are the old and
\* the new line number at which the hunk begins.
C23_HunkHeadersConventional ==
  applied.op = "unifiedDiff" =>
    \A h \in 1..Len(applied.hunks) :
      LET hunk == applied.hunks[h]
          oldSide == NotOfType(LinesOf(hunk), "added")
          newSide == NotOfType(LinesOf(hunk), "removed")
      IN /\ hunk.oldCount = Len(oldSide)
         /\ hunk.newCount = Len(newSide)
         /\ oldSide # <<>> => hunk.oldStart = oldSide[1].oldLineNumber
         /\ newSide # <<>> => hunk.newStart = newSide[1].newLineNumber

\* ----------------------------------------------------- claims on the search
Range(seq) == {seq[i] : i \in 1..Len(seq)}
EmbeddingOf(id) == RowIn(memoryTable, id).embedding

\* C24: findSimilar(id, limit, threshold) never returns the memory with the
\* queried id, never a candidate whose cosine similarity to the queried
\* memory's content vector is below threshold, at most limit results, and
\* these in non-increasing score order.
C24_FindSimilar ==
  applied.op = "findSimilarMemories" =>
    /\ Len(applied.ret) <= applied.limit
    /\ \A r \in Range(applied.ret) :
         /\ r.memory.id # applied.id
         /\ cosineSimilarity(EmbeddingOf(applied.id), EmbeddingOf(r.memory.id))
              >= applied.threshold
    /\ \A i, j \in 1..Len(applied.ret) :
         i < j => applied.ret[i].score >= applied.ret[j].score

\* A call that returned limit results and left out, by the limit, a further
\* memory that reaches the threshold.
C24_Witness ==
  /\ applied.op = "findSimilarMemories"
  /\ Len(applied.ret) = applied.limit
  /\ \E m \in memoryTable :
       /\ m.id # applied.id
       /\ m.id \notin {r.memory.id : r \in Range(applied.ret)}
       /\ cosineSimilarity(EmbeddingOf(applied.id), m.embedding) >= applied.threshold

\* C25: search returns at most limit results, every one with score =
\* 1 - distance at least threshold and, when a tag filter is given, carrying
\* one of the requested tags; the limit holds with and without tag filter.
C25_SearchWithinLimit ==
  (applied.op = "search" /\ IsDefined(applied.options.limit)
     /\ IsDefined(applied.options.threshold)) =>
    /\ Len(applied.ret) <= Get(applied.options.limit)
    /\ \A r \in Range(applied.ret) :
         /\ r.score = 100 - Distance(applied.queryEmbedding, EmbeddingOf(r.memory.id))
         /\ r.score >= Get(applied.options.threshold)
         /\ IsDefined(applied.options.tags) =>
              \E t \in Range(Get(applied.options.tags)) : t \in Range(r.memory.tags)

\* C26: the tool-facing search runs the underlying search at most twice, each
\* at its threshold; it retries, once and at max(0, T - 0.1), exactly when
\* the search at T returned nothing and T > 0; usedFallback is true and
\* actualThreshold the relaxed value exactly when the returned results came
\* from the relaxed search, otherwise actualThreshold is T; so a candidate
\* below T but not below the relaxed value is returned with usedFallback.
C26_ThresholdRelaxation ==
  (applied.op = "searchMemories" /\ ~applied.threw) =>
    LET T == applied.minSimilarity
        relaxed == Max(0, T - 10)
        n == Len(applied.searches)
        Scores == {100 - Distance(Get(applied.read), m.embedding) : m \in memoryTable}
    IN /\ n <= 2
       /\ \A k \in 1..n : \A r \in Range(applied.searches[k].results) :
            r.score >= applied.searches[k].threshold
       /\ (n = 2) <=> (applied.searches[1].results = <<>> /\ T > 0)
       /\ n = 2 => applied.searches[2].threshold = relaxed
       /\ applied.usedFallback <=> (n = 2 /\ applied.ret # <<>>)
       /\ applied.actualThreshold = (IF applied.usedFallback THEN relaxed ELSE T)
       /\ applied.ret = applied.searches[n].results
       /\ ( /\ T > 0
            /\ \A x \in Scores : x < T
            /\ \E x \in Scores : x >= relaxed )
          => /\ applied.usedFallback
             /\ applied.actualThreshold = relaxed
             /\ applied.ret # <<>>

\* --------------------------------------------------- claims on the services
Returned(p, op) == calls[p].op = op /\ calls[p].pc = "returned"

\* C27: for any number of concurrent or sequential initialize() calls,
\* _initialize() is started at most once, and a caller that arrived while it
\* was running completes only after it has finished.
C27_InitializedOnce ==
  /\ \A on \in Services : service[on].started <= 1
  /\ \A p \in Procs :
       Returned(p, "initialize") =>
         service[calls[p].on].initializationPromise \in {"fulfilled", "rejected"}

\* Two callers of initialize() on one service have both completed, one of
\* which arrived while the other's initialization was running.
C27_Witness ==
  \E p, q \in Procs :
    /\ p # q
    /\ Returned(p, "initialize") /\ Returned(q, "initialize")
    /\ calls[p].on = calls[q].on
    /\ ~calls[p].joined /\ calls[q].joined
    /\ service[calls[p].on].started = 1

\* C28: when the embedding model is unavailable, because its load fails or
\* because inference fails, generate still returns a normalized 768-dimensional
\* vector instead of raising, on the first and on every later call.
C28_GenerateNeverRaises ==
  \A p \in Procs :
    Returned(p, "generate") =>
      /\ calls[p].status = "ok"
      /\ IsDefined(calls[p].ret)
      /\ Get(calls[p].ret).dimensions = 768
      /\ Get(calls[p].ret).normalized

\* ------------------------------------------------- claims on the edit tool
\* C29: the edit tool changes no memory, snapshot or event when old_text
\* does not occur in the memory's text or when the replacement yields the
\* same text; otherwise the stored text is the old one with the first
\* occurrence (replace_all = false) or every occurrence (replace_all = true)
\* of old_text replaced, and current_version has risen by exactly 1.
C29_EditReplaces ==
  [][ (last'.op = "edit" /\ IsDefined(last'.pre)) =>
        LET args == Get(last'.upd)
            text == Get(last'.pre).text
            expected == IF args.replace_all
                        THEN replaceAll(text, args.old_text, args.new_text)
                        ELSE ReplaceFirst(text, args.old_text, args.new_text)
        IN IF ~includes(text, args.old_text) \/ expected = text
           THEN UNCHANGED <<memoryTable, versionTable, eventTable, relationshipTable>>
           ELSE \E m \in memoryTable' :
                  /\ m.id = last'.id
                  /\ m.text = expected
                  /\ m.current_version = Get(last'.pre).current_version + 1 ]_vars

\* C30: within one memory's history no two version snapshots carry the same
\* version_number, after any sequence of create, update and revert.
C30_VersionNumbersIdentify ==
  \A v, w \in versionTable :
    (v.memory_id = w.memory_id /\ v.version_number = w.version_number) => v = w

\* ------------------------------------------------ claims on the threshold
\* The rows search fetches for certain: those with fewer than limit * 2
\* other rows as near to the query.
Fetched(rows, vector, limit) ==
  {m \in rows :
     Cardinality({x \in rows \ {m} :
                    Distance(vector, x.embedding) <= Distance(vector, m.embedding)})
       < limit * 2}

\* C31: search applies the caller's threshold exactly for every value in
\* [0, 1], 0 included: when a threshold is given, a fetched candidate that
\* passes the tag filter and whose score 1 - distance is at least the given
\* threshold is returned, unless limit results are returned without it.
C31_ThresholdApplied ==
  (applied.op = "search" /\ IsDefined(applied.options.limit)
     /\ IsDefined(applied.options.threshold)) =>
    \A m \in Fetched(memoryTable, applied.queryEmbedding, Get(applied.options.limit)) :
      ( /\ 100 - Distance(applied.queryEmbedding, m.embedding)
             >= Get(applied.options.threshold)
        /\ IsDefined(applied.options.tags) =>
             \E t \in Range(Get(applied.options.tags)) : t \in Range(m.tags) )
      => \/ m.id \in {r.memory.id : r \in Range(applied.ret)}
         \/ Len(applied.ret) >= Get(applied.options.limit)

\* ------------------------------------------------------ claims on the list
\* The stored memories a list with these filters is about.
Matching(types, tags) ==
  {m \in memoryTable :
     /\ IsDefined(types) => m.type \in Range(Get(types))
     /\ IsDefined(tags) => \E t \in Range(Get(tags)) : t \in Range(m.tags)}

\* C32: list(limit, offset, types, tags) paginates: every returned memory
\* is a different stored memory that satisfies the type filter and carries a
\* requested tag, and of the n matching memories the first offset are
\* skipped and the next ones returned up to limit, which makes
\* min(limit, max(0, n - offset)) memories: exactly limit when at least
\* offset + limit memories match.
C32_ListPaginates ==
  applied.op = "listMemories" =>
    LET matching == Matching(applied.types, applied.tags)
        n == Cardinality(matching)
    IN /\ \A r \in Range(applied.ret) : r.id \in {m.id : m \in matching}
       /\ \A i, j \in 1..Len(applied.ret) :
            i # j => applied.ret[i].id # applied.ret[j].id
       /\ Len(applied.ret) = Min(applied.limit, Max(0, n - applied.offset))

\* ------------------------------------------------ claims on the edit script
\* Every subsequence of a sequence, and the length of the longest sequence
\* that is a subsequence of both of two.
RECURSIVE SubsequencesOf(_)
SubsequencesOf(seq) ==
  IF seq = <<>> THEN {<<>>}
  ELSE LET rest == SubsequencesOf(Tail(seq))
       IN rest \cup {<<Head(seq)>> \o x : x \in rest}
LcsLength(a, b) ==
  LET common == SubsequencesOf(a) \cap SubsequencesOf(b)
  IN CHOOSE n \in 0..Len(a) :
       /\ \E c \in common : Len(c) = n
       /\ \A c \in common : Len(c) <= n

\* C33: diff(A, B) is a minimal line edit script: it has as many unchanged
\* lines as a longest common subsequence of the lines of A and of B is long,
\* so lines(A) - LCS removed and lines(B) - LCS added lines; and when A and B
\* share no line it is all lines of A as removed followed by all lines of B
\* as added.
C33_MinimalEditScript ==
  applied.op = "diff" =>
    LET A == split(applied.oldText, Newline)
        B == split(applied.newText, Newline)
        n == LcsLength(A, B)
        lines == applied.ret.lines
    IN /\ applied.ret.stats.unchanged = n
       /\ applied.ret.stats.removed = Len(A) - n
       /\ applied.ret.stats.added = Len(B) - n
       /\ Len(lines) = Len(A) + Len(B) - n
       /\ n = 0 =>
            /\ \A i \in 1..Len(A) :
                 /\ lines[i].type = "removed"
                 /\ lines[i].content = A[i]
                 /\ lines[i].oldLineNumber = i
            /\ \A j \in 1..Len(B) :
                 /\ lines[Len(A) + j].type = "added"
                 /\ lines[Len(A) + j].content = B[j]
                 /\ lines[Len(A) + j].newLineNumber = j

\* Two texts of which a longest common subsequence has two lines and is not
\* all of either text.
C33_Witness ==
  /\ applied.op = "diff"
  /\ applied.ret.stats.unchanged >= 2
  /\ applied.ret.stats.removed > 0
  /\ applied.ret.stats.added > 0

\* The hunks that render the line of the diff at index k, counted from 0 as
\* the code counts.
HunksOf(k) ==
  {h \in 1..Len(applied.hunks) :
     applied.hunks[h].hunkStart <= k /\ k < applied.hunks[h].hunkEnd}

\* C34: unifiedDiff partitions its output into disjoint hunks: every added
\* or removed line of diff(old, new) is rendered in exactly one hunk, no line
\* of the diff is rendered in more than one hunk, and identical texts produce
\* no hunk.
C34_HunksDisjoint ==
  applied.op = "unifiedDiff" =>
    /\ \A k \in 0..(Len(applied.lines) - 1) :
         /\ Cardinality(HunksOf(k)) <= 1
         /\ applied.lines[k + 1].type # "unchanged" => Cardinality(HunksOf(k)) = 1
    /\ applied.oldText = applied.newText => applied.hunks = <<>>

\* ----------------------------------------------- claims on the update frame
\* What the tables hold for the ids other than id.
OtherRows(table, id) == {m \in table : m.id # id}
OtherHistory(table, id) == {v \in table : v.memory_id # id}

\* C35: update(id, partial) changes only the fields the partial names,
\* current_version, updated_at and a vector that is supplied: afterwards the
\* memory is stored under the same id with the creation timestamp and the
\* relationship_count it had and with every field of MemoryUpdateInput that
\* the partial does not name as it was, and the memories, snapshots and
\* events of other ids and the relationships are what they were.
C35_UpdateFrame ==
  [][ SucceededNext("update")
      => LET id == last'.id
             updates == Get(last'.upd)
             old == RowIn(memoryTable, id)
         IN /\ OtherRows(memoryTable', id) = OtherRows(memoryTable, id)
            /\ \E new \in memoryTable' :
                 /\ memoryTable' \ OtherRows(memoryTable', id) = {new}
                 /\ new.id = old.id
                 /\ new.created_at = old.created_at
                 /\ new.relationship_count = old.relationship_count
                 /\ \A f \in FieldNames : ~IsDefined(updates[f]) => new[f] = old[f]
            /\ OtherHistory(versionTable', id) = OtherHistory(versionTable, id)
            /\ OtherHistory(eventTable', id) = OtherHistory(eventTable, id)
            /\ relationshipTable' = relationshipTable ]_vars

\* ------------------------------------------- claims on the progress stream
\* C36: every client connected to the progress stream of a job receives
\* every progress, completed and failed event emitted for that job while it
\* is connected, also when another client watches the same job, connects
\* later or disconnects first.
C36_EveryWatcherReceives ==
  [][ Len(queue'.emitted) > Len(queue.emitted)
      => LET e == queue'.emitted[Len(queue'.emitted)]
         IN \A c \in Clients :
              (queue.streams[c].state = "open" /\ queue.streams[c].jobId = e.jobId)
              => queue'.streams[c].written
                   = Append(queue.streams[c].written, ProgressData(e.jobId, e.status)) ]_vars

\* ------------------------------------------ claims on the edit tool's loop
\* C37: the edit tool terminates for every input: whatever the memory's
\* text, old_text (the empty string included), new_text and replace_all are,
\* the call returns.
C37_EditTerminates ==
  last.op = "edit" => last.status # "hangs"

\* ------------------------------------------- claims on the diff endpoint
\* The versions a diff request names.
NamedVersions(query) ==
  {Get(query[k]) : k \in {k \in {"from_version", "to_version"} : IsDefined(query[k])}}

\* C38: the diff endpoint of memory id exposes only text of that memory: a
\* request that names from_version, to_version or both is answered with a
\* diff only when each named version is a version of memory id, as a revert
\* is; when one is not, no diff is returned.
C38_DiffOfOwnVersions ==
  (last.op = "diff" /\ last.status = "ok") =>
    \A versionId \in NamedVersions(Get(last.upd)) :
      VersionBelongs(getVersion(DB, versionId), last.id)
====
